---- MODULE Spec2Model ----
(***************************************************************************)
(* A model of the world-engine turn pipeline (engine.ts,                   *)
(* chronicle-pressure.ts, meaningEngine.ts) and of the social graph        *)
(* (socialGraph.ts).                                                       *)
(*                                                                         *)
(* Numbers.  The program computes with IEEE doubles.  The model uses       *)
(* fixed point: pressures and intensities in units of 1/PUnit, tendency    *)
(* weights in hundredths, trust and intimacy in units of 1/GUnit.  A       *)
(* product is rounded toward zero to the unit, where the program rounds    *)
(* to the nearest double.                                                  *)
(*                                                                         *)
(* Objects.  A JavaScript object with string keys is an insertion-ordered  *)
(* map; where the program iterates over Object.entries the model keeps     *)
(* the map as a sequence of entries in insertion order.                    *)
(***************************************************************************)
EXTENDS Integers, Sequences, FiniteSets, TLC

VARIABLES
    world,      \* the ExtendedWorldState the driver holds (run 1)
    call,       \* the last simulateTurn call of run 1: its arguments as the
                \* caller sees them before and after, and its TurnResult
    emissions,  \* run 1: <<type, turn>> of every chronicle emitted so far
    deviations, \* number of turns of run 1 that did not take BusyActions
    world2,     \* the ExtendedWorldState of a second, independent run
    call2,      \* the last simulateTurn call of run 2
    agree,      \* in what the inputs of run 1 and run 2 have agreed so far
    graph,      \* a SocialGraphState
    gops,       \* number of social graph operations applied to graph
    gcall,      \* the last social graph call: its name, its arguments, the
                \* graph it was given
    beliefState,\* a BeliefState
    bops,       \* number of belief operations applied to beliefState
    bcall,      \* the last belief system call: its name, its arguments, what
                \* it returned
    pcall,      \* the last call of a chronicle-pressure function on its own:
                \* its name, its arguments, what it returned
    plugins2    \* the plugins registered with the MeaningEngine of run 2, in
                \* registration order

engineVars ==
    <<world, call, emissions, deviations, world2, call2, agree, pcall, plugins2>>
graphVars == <<graph, gops, gcall>>
beliefVars == <<beliefState, bops, bcall>>

vars == <<engineVars, graphVars, beliefVars>>

-----------------------------------------------------------------------------
(* Bounds of the exploration *)

MaxTurn == 5          \* Spec: simulateTurn is called while world.turn <= MaxTurn
LongTurns == 20       \* SpecLong: the driver's 20 turns
MaxDeviations == 1    \* SpecLong: turns that may take another action list
MaxPairTurn == 3      \* SpecPair: both runs are stepped while turn <= MaxPairTurn
MaxGraphOps == 3      \* SpecGraph: operations applied to the graph
MaxRankOps == 3       \* SpecRank: operations that build the graph
MaxBeliefOps == 2     \* SpecBelief: operations applied to the belief state
MaxPluginTurn == 3     \* SpecPlugins: both runs are stepped while turn <= MaxPluginTurn
MaxTargetOps == 3     \* SpecTarget: operations that build the graph

-----------------------------------------------------------------------------
(* Sequence helpers (Array.prototype.includes) *)

Includes(s, x) == \E i \in DOMAIN s : s[i] = x

Max(a, b) == IF a >= b THEN a ELSE b
Min(a, b) == IF a <= b THEN a ELSE b
Abs(x) == IF x >= 0 THEN x ELSE -x

\* Round a quotient toward zero (the sign-symmetric rounding of a product).
QuotZ(n, d) == IF n >= 0 THEN n \div d ELSE -((-n) \div d)

\* QuotZ(v * f, d) for f >= 0, d > 0, computed without forming v * f
MulDiv(v, f, d) ==
    IF v >= 0 THEN (v \div d) * f + ((v % d) * f) \div d
    ELSE -(((-v) \div d) * f + (((-v) % d) * f) \div d)

-----------------------------------------------------------------------------
(* Strings the program inspects, as sequences of characters *)

UpperLetters ==
    <<"A","B","C","D","E","F","G","H","I","J","K","L","M",
      "N","O","P","Q","R","S","T","U","V","W","X","Y","Z">>
LowerLetters ==
    <<"a","b","c","d","e","f","g","h","i","j","k","l","m",
      "n","o","p","q","r","s","t","u","v","w","x","y","z">>

\* String.prototype.toLowerCase
ToLowerCase(s) ==
    [i \in DOMAIN s |->
        IF \E k \in DOMAIN UpperLetters : UpperLetters[k] = s[i]
        THEN LowerLetters[CHOOSE k \in DOMAIN UpperLetters : UpperLetters[k] = s[i]]
        ELSE s[i]]

\* String.prototype.includes
StrIncludes(s, sub) ==
    \E i \in 1..(Len(s) - Len(sub) + 1) : SubSeq(s, i, i + Len(sub) - 1) = sub

\* The characters of a MeaningType literal
TypeChars(type) ==
    CASE type = "FEAR" -> <<"F","E","A","R">>
      [] type = "TRUST" -> <<"T","R","U","S","T">>
      [] type = "RESPECT" -> <<"R","E","S","P","E","C","T">>

-----------------------------------------------------------------------------
(* types.ts *)

MeaningType == {"FEAR", "TRUST", "RESPECT"}
ActionTag == {"RISKY", "SAFE", "SOCIAL", "AGGRESSIVE", "PASSIVE", "NEUTRAL"}
ActionType == {"MOVE", "SPEAK", "WAIT", "ATTACK"}

\* One unit of pressure or intensity is 1/PUnit; one unit of tendency weight
\* is 1/100.
PUnit == 10 * 1000

-----------------------------------------------------------------------------
(* The ambient sources: crypto.randomUUID, Date.now, Math.random.           *)
(* rng = [salt, tick]: salt is what differs between two runs of the same    *)
(* call, tick the call it is drawn in.  A UUID is fresh: it differs from    *)
(* every UUID drawn under another key or in another call.                   *)

randomUUID(rng, kind, sub, k) == <<rng.salt, rng.tick, kind, sub, k>>
DateNow(rng) == 1000 * rng.tick + rng.salt
MathRandom(rng, k) == (37 * rng.salt + 11 * k + 7 * rng.tick) % 100

-----------------------------------------------------------------------------
(* meaningEngine.ts *)

\* A plugin turns every log carrying its tag into one meaning event.
FearPlugin ==
    [type |-> "FEAR", tag |-> "RISKY", intensity |-> (4 * PUnit) \div 10,
     audience |-> [locationIds |-> <<"LOCAL">>]]
TrustPlugin ==
    [type |-> "TRUST", tag |-> "SOCIAL", intensity |-> (3 * PUnit) \div 10,
     audience |-> [factionIds |-> <<"CIVILIANS">>]]
RespectPlugin ==
    [type |-> "RESPECT", tag |-> "AGGRESSIVE", intensity |-> (2 * PUnit) \div 10,
     audience |-> [factionIds |-> <<"WARRIORS">>]]

\* plugin.evaluate(logs): filter by tag, map to a MeaningEvent
PluginEvaluate(p, logs, rng) ==
    LET idx == SelectSeq([k \in 1..Len(logs) |-> k],
                         LAMBDA k : Includes(logs[k].tags, p.tag))
    IN  [j \in 1..Len(idx) |->
            [id |-> randomUUID(rng, "meaning", p.type, idx[j]),
             sourceLogIds |-> <<logs[idx[j]].id>>,
             type |-> p.type,
             intensity |-> p.intensity,
             audience |-> p.audience]]

\* MeaningEngine.evaluate: flatMap over the registry in registration order
RECURSIVE EngineEvaluate(_, _, _)
EngineEvaluate(plugins, logs, rng) ==
    IF plugins = <<>> THEN <<>>
    ELSE PluginEvaluate(Head(plugins), logs, rng)
         \o EngineEvaluate(Tail(plugins), logs, rng)

\* The registry the drivers build: Fear, Trust, Respect
meaningEngine == <<FearPlugin, TrustPlugin, RespectPlugin>>

-----------------------------------------------------------------------------
(* Insertion-ordered maps (Record<MeaningType, number>, Map<ActionTag, number>) *)
(* as sequences of [key, value] entries                                       *)

Has(m, key) == \E i \in DOMAIN m : m[i].key = key
Get(m, key) == m[CHOOSE i \in DOMAIN m : m[i].key = key].value
\* m[key] ?? dflt
GetOr(m, key, dflt) == IF Has(m, key) THEN Get(m, key) ELSE dflt
\* m[key] = value: in place for a present key, appended for a new one
Put(m, key, value) ==
    IF Has(m, key)
    THEN [i \in DOMAIN m |-> IF m[i].key = key THEN [key |-> key, value |-> value] ELSE m[i]]
    ELSE Append(m, [key |-> key, value |-> value])

-----------------------------------------------------------------------------
(* chronicle-pressure.ts                                                    *)
(*                                                                          *)
(* Each function is modelled as [ret, arg]: ret is the value it returns,    *)
(* arg is its (first) argument object as the caller finds it after the      *)
(* call.  A function that only writes to copies leaves arg as it was.       *)

RECURSIVE AccumulateLoop(_, _)
AccumulateLoop(pressure, meanings) ==
    IF meanings = <<>> THEN pressure
    ELSE LET m == Head(meanings)
         IN  AccumulateLoop(Put(pressure, m.type, GetOr(pressure, m.type, 0) + m.intensity),
                            Tail(meanings))

\* Mutant: `const pressure = world.meaningPressure`, no copy
accumulateMeaningPressure_InPlace(w, meanings) ==
    LET pressure == AccumulateLoop(w.meaningPressure, meanings)
    IN  [ret |-> [w EXCEPT !.meaningPressure = pressure],
         arg |-> [w EXCEPT !.meaningPressure = pressure]]

\* 1. Accumulate Meaning pressure.  `pressure` is a spread copy.
accumulateMeaningPressure(w, meanings) ==
    LET pressure == AccumulateLoop(w.meaningPressure, meanings)
    IN  [ret |-> [w EXCEPT !.meaningPressure = pressure],
         arg |-> w]

CHRONICLE_THRESHOLD == 2 * PUnit
MIN_CHRONICLE_GAP == 3

\* `An era shaped by ${type.toLowerCase()}.`
ChronicleSummary(type) ==
    <<"A","n"," ","e","r","a"," ","s","h","a","p","e","d"," ","b","y"," ">>
        \o ToLowerCase(TypeChars(type)) \o <<".">>

\* Mutant: value > CHRONICLE_THRESHOLD
canEmit_Above(w, lastTurn, type, value) ==
    /\ value > 2 * PUnit
    /\ \/ type \notin DOMAIN lastTurn
       \/ w.turn - lastTurn[type] >= 3

\* Mutant: the cooldown test is left out
canEmit_NoGap(w, lastTurn, type, value) == value >= 2 * PUnit

\* const last = lastTurn[type] ?? -Infinity;
\* value >= CHRONICLE_THRESHOLD && world.turn - last >= MIN_CHRONICLE_GAP
canEmit(w, lastTurn, type, value) ==
    /\ value >= CHRONICLE_THRESHOLD
    /\ \/ type \notin DOMAIN lastTurn          \* turn - (-Infinity) = Infinity
       \/ w.turn - lastTurn[type] >= MIN_CHRONICLE_GAP

\* Mutant: the pressure is reset
DecayPressure_Reset(value) == 0

\* value * 0.4
DecayPressure(value) == MulDiv(value, 4, 10)

\* The loop over Object.entries(pressure): the entries are those of the
\* copy at loop start; entry i is written only by its own iteration.
RECURSIVE ChronicleLoop(_, _, _, _, _)
ChronicleLoop(w, rng, snapshot, i, acc) ==
    IF i > Len(snapshot) THEN acc
    ELSE LET type == snapshot[i].key
             value == snapshot[i].value
         IN  IF canEmit(w, acc.lastTurn, type, value)
             THEN ChronicleLoop(w, rng, snapshot, i + 1,
                    [entries |-> Append(acc.entries,
                                    [id |-> randomUUID(rng, "chronicle", type, i),
                                     year |-> w.year,
                                     summary |-> ChronicleSummary(type),
                                     derivedMeaningIds |-> <<>>,
                                     scope |-> "LOCAL"]),
                     pressure |-> Put(acc.pressure, type, DecayPressure(value)),
                     lastTurn |-> (type :> w.turn) @@ acc.lastTurn])
             ELSE ChronicleLoop(w, rng, snapshot, i + 1, acc)

\* 2. Generate Chronicle from accumulated pressure
generateChronicleFromPressure(w, rng) ==
    LET acc == ChronicleLoop(w, rng, w.meaningPressure, 1,
                             [entries |-> <<>>,
                              pressure |-> w.meaningPressure,
                              lastTurn |-> w.lastChronicleTurn])
    IN  [ret |-> [world |-> [w EXCEPT !.meaningPressure = acc.pressure,
                                      !.lastChronicleTurn = acc.lastTurn],
                  chronicles |-> acc.entries],
         arg |-> w]

\* 3. Chronicle -> World Tendency (with clamping); weights in hundredths
TENDENCY_MIN == -60
TENDENCY_MAX == 60

\* Mutant: the lower clamp is left out
ClampTendency_NoMin(x) == IF x <= 60 THEN x ELSE 60

\* Math.max(TENDENCY_MIN, Math.min(TENDENCY_MAX, x))
ClampTendency(x) == Max(TENDENCY_MIN, Min(TENDENCY_MAX, x))

\* Mutant: the sum is stored unclamped
adjust_Unclamped(map, tag, delta) ==
    Put(map, tag, GetOr(map, tag, 0) + delta)

\* const adjust = (tag, delta) => map.set(tag, clamp(current + delta))
adjust(map, tag, delta) ==
    Put(map, tag, ClampTendency(GetOr(map, tag, 0) + delta))

RECURSIVE TendencyToMap(_, _)
TendencyToMap(map, tendency) ==
    IF tendency = <<>> THEN map
    ELSE LET t == Head(tendency)
         IN  TendencyToMap(Put(map, t.tag, GetOr(map, t.tag, 0) + t.weight),
                           Tail(tendency))

\* The body of `for (const c of chronicles)`
AdjustForChronicle(map, c) ==
    LET lower == ToLowerCase(c.summary)
        m1 == IF StrIncludes(lower, <<"f","e","a","r">>)
              THEN adjust(adjust(map, "RISKY", -10), "SAFE", 8)
              ELSE map
        m2 == IF StrIncludes(lower, <<"t","r","u","s","t">>)
              THEN adjust(adjust(m1, "SOCIAL", 8), "PASSIVE", -4)
              ELSE m1
        m3 == IF StrIncludes(lower, <<"r","e","s","p","e","c","t">>)
              THEN adjust(m2, "AGGRESSIVE", 5)
              ELSE m2
    IN  m3

RECURSIVE TendencyLoop(_, _)
TendencyLoop(map, chronicles) ==
    IF chronicles = <<>> THEN map
    ELSE TendencyLoop(AdjustForChronicle(map, Head(chronicles)), Tail(chronicles))

applyChronicleTendency(w, chronicles) ==
    IF Len(chronicles) = 0 THEN [ret |-> w, arg |-> w]
    ELSE LET map == TendencyLoop(TendencyToMap(<<>>, w.tendency), chronicles)
             tendency == [i \in DOMAIN map |-> [tag |-> map[i].key, weight |-> map[i].value]]
         IN  [ret |-> [w EXCEPT !.tendency = tendency],
              arg |-> w]

\* modifier += influence.weight for each tag, influence being the first
\* entry of world.tendency with that tag
RECURSIVE InclineModifier(_, _)
InclineModifier(tags, tendency) ==
    IF tags = <<>> THEN 0
    ELSE (IF \E i \in DOMAIN tendency : tendency[i].tag = Head(tags)
          THEN tendency[CHOOSE i \in DOMAIN tendency :
                           /\ tendency[i].tag = Head(tags)
                           /\ \A j \in 1..(i - 1) : tendency[j].tag # Head(tags)].weight
          ELSE 0)
         + InclineModifier(Tail(tags), tendency)

\* Mutant: base + modifier, without the floor
inclineActionProbability_NoFloor(base, tags, w) ==
    base + InclineModifier(tags, w.tendency)

\* 4. Action probability inclination; base and the result in hundredths
inclineActionProbability(base, tags, w) ==
    Max(5, base + InclineModifier(tags, w.tendency))

\* 5. Echo -> MeaningPressure bridge; factors in tenths
TONE_FACTOR(tone) ==
    CASE tone = "positive" -> 6
      [] tone = "negative" -> 10
      [] tone = "ambiguous" -> 3

\* DECAY_SENSITIVITY[type] ?? 0.7
Sensitivity(type) ==
    CASE type = "FEAR" -> 8
      [] type = "TRUST" -> 6
      [] type = "RESPECT" -> 5
      [] OTHER -> 7

\* Mutant: echoes damp the pressure instead of amplifying it
EchoGain_Damping(value, tone, type) ==
    -MulDiv(value, TONE_FACTOR(tone) * Sensitivity(type), 1000)

\* value * TONE_FACTOR[echo.tone] * sensitivity * 0.1
EchoGain(value, tone, type) ==
    MulDiv(value, TONE_FACTOR(tone) * Sensitivity(type), 1000)

\* Mutant: the gain is scaled by the echo's random distortion
AmplifyByEcho_Distorted(pressure, echo) ==
    [i \in DOMAIN pressure |->
        [key |-> pressure[i].key,
         value |-> pressure[i].value
                    + MulDiv(EchoGain(pressure[i].value, echo.tone, pressure[i].key),
                             echo.distortion, 100)]]

\* One echo: every entry of the pressure copy becomes value + gain
AmplifyByEcho(pressure, echo) ==
    [i \in DOMAIN pressure |->
        [key |-> pressure[i].key,
         value |-> pressure[i].value
                    + EchoGain(pressure[i].value, echo.tone, pressure[i].key)]]

\* Mutant: only the first echo amplifies
EchoLoop_FirstOnly(pressure, echoes) ==
    IF echoes = <<>> THEN pressure ELSE AmplifyByEcho(pressure, Head(echoes))

\* `for (const echo of world.echoes)`: each echo works on the entries the
\* echoes before it left
RECURSIVE EchoLoop(_, _)
EchoLoop(pressure, echoes) ==
    IF echoes = <<>> THEN pressure
    ELSE EchoLoop(AmplifyByEcho(pressure, Head(echoes)), Tail(echoes))

\* Mutant: the amplification step is skipped
applyEchoToPressure_Skipped(w) == [ret |-> w, arg |-> w]

applyEchoToPressure(w) ==
    [ret |-> [w EXCEPT !.meaningPressure = EchoLoop(w.meaningPressure, w.echoes)],
     arg |-> w]

-----------------------------------------------------------------------------
(* engine.ts *)

\* The log is built from actorId, type and tags of the action (the tags
\* array itself, not a copy), a fresh id and the time.
executeAction(action, rng, k) ==
    [ret |-> [id |-> randomUUID(rng, "log", "-", k),
              actorId |-> action.actorId,
              type |-> action.type,
              tags |-> action.tags,
              timestamp |-> DateNow(rng)],
     arg |-> action]

\* Mutant: ttl: 2
generateEchoes_ShortLived(meanings, rng) ==
    [k \in 1..Len(meanings) |->
        [id |-> randomUUID(rng, "echo", "-", k),
         originMeaningId |-> meanings[k].id,
         tone |-> IF meanings[k].type = "FEAR" THEN "negative" ELSE "positive",
         distortion |-> MathRandom(rng, k),
         ttl |-> 2,
         scope |-> [locationId |-> "LOCAL"]]]

\* Mutant: RESPECT events spawn ambiguous echoes
generateEchoes_Ambiguous(meanings, rng) ==
    [k \in 1..Len(meanings) |->
        [id |-> randomUUID(rng, "echo", "-", k),
         originMeaningId |-> meanings[k].id,
         tone |-> IF meanings[k].type = "FEAR" THEN "negative"
                  ELSE IF meanings[k].type = "TRUST" THEN "positive"
                  ELSE "ambiguous",
         distortion |-> MathRandom(rng, k),
         ttl |-> 3,
         scope |-> [locationId |-> "LOCAL"]]]

generateEchoes(meanings, rng) ==
    [k \in 1..Len(meanings) |->
        [id |-> randomUUID(rng, "echo", "-", k),
         originMeaningId |-> meanings[k].id,
         tone |-> IF meanings[k].type = "FEAR" THEN "negative" ELSE "positive",
         distortion |-> MathRandom(rng, k),
         ttl |-> 3,
         scope |-> [locationId |-> "LOCAL"]]]

\* Mutant: .filter(e => e.ttl >= 0)
updateEchoTTL_KeepZero(echoes) ==
    [ret |-> SelectSeq([i \in DOMAIN echoes |->
                           [echoes[i] EXCEPT !.ttl = @ - 1]],
                       LAMBDA e : e.ttl >= 0),
     arg |-> echoes]

\* echoes.map(e => ({ ...e, ttl: e.ttl - 1 })).filter(e => e.ttl > 0)
\* arg: the echo objects of the array passed in, after the call.
updateEchoTTL(echoes) ==
    [ret |-> SelectSeq([i \in DOMAIN echoes |->
                           [echoes[i] EXCEPT !.ttl = @ - 1]],
                       LAMBDA e : e.ttl > 0),
     arg |-> echoes]

\* Mutant: the year is never advanced
FinalWorld_SameYear(worldAfterChronicle, newTurn, yearIncrement, logs, meanings, chronicles, updatedEchoes) ==
    [worldAfterChronicle EXCEPT
        !.turn = newTurn,
        !.logs = worldAfterChronicle.logs \o logs,
        !.meanings = worldAfterChronicle.meanings \o meanings,
        !.chronicles = worldAfterChronicle.chronicles \o chronicles,
        !.echoes = updatedEchoes]

\* Mutant: chronicles: [...chronicles, ...worldAfterChronicle.chronicles]
FinalWorld_Prepend(worldAfterChronicle, newTurn, yearIncrement, logs, meanings, chronicles, updatedEchoes) ==
    [worldAfterChronicle EXCEPT
        !.year = worldAfterChronicle.year + yearIncrement,
        !.turn = newTurn,
        !.logs = worldAfterChronicle.logs \o logs,
        !.meanings = worldAfterChronicle.meanings \o meanings,
        !.chronicles = chronicles \o worldAfterChronicle.chronicles,
        !.echoes = updatedEchoes]

\* const finalWorld = { ...worldAfterChronicle, year, turn, logs, meanings,
\*                      chronicles, echoes }
FinalWorld(worldAfterChronicle, newTurn, yearIncrement, logs, meanings, chronicles, updatedEchoes) ==
    [worldAfterChronicle EXCEPT
        !.year = worldAfterChronicle.year + yearIncrement,
        !.turn = newTurn,
        !.logs = worldAfterChronicle.logs \o logs,
        !.meanings = worldAfterChronicle.meanings \o meanings,
        !.chronicles = worldAfterChronicle.chronicles \o chronicles,
        !.echoes = updatedEchoes]

\* What a write to object `after` (which was `before`) does to `input`, an
\* older object that shares with it the arrays and maps held in `fields`.
Leak(input, before, after, fields) ==
    [f \in DOMAIN input |->
        IF f \in fields /\ after[f] # before[f] THEN after[f] ELSE input[f]]

\* Fields whose value is an array or a map (shared by a spread copy)
RefFields == {"logs", "meanings", "echoes", "chronicles", "tendency",
              "meaningPressure", "lastChronicleTurn"}

\* simulateTurn(world, actions, meaningEngine).
\*   result:  the TurnResult
\*   world:   the argument world as the caller finds it after the call
\*   actions: the argument actions as the caller finds them after the call
simulateTurn(w, actions, plugins, rng) ==
    LET ex == [k \in 1..Len(actions) |-> executeAction(actions[k], rng, k)]
        logs == [k \in 1..Len(actions) |-> ex[k].ret]
        meanings == EngineEvaluate(plugins, logs, rng)
        \* 2) accumulate pressure from meanings
        s1 == accumulateMeaningPressure(w, meanings)
        in1 == s1.arg
        \* 3) let existing echoes amplify that pressure
        s2 == applyEchoToPressure(s1.ret)
        in2 == Leak(in1, s1.ret, s2.arg, RefFields \ {"meaningPressure"})
        \* 4) produce chronicles from accumulated pressure
        s3 == generateChronicleFromPressure(s2.ret, rng)
        in3 == Leak(in2, s2.ret, s3.arg, RefFields \ {"meaningPressure"})
        chronicles == s3.ret.chronicles
        \* 5) chronicles bias world tendencies
        s4 == applyChronicleTendency(s3.ret.world, chronicles)
        in4 == Leak(in3, s3.ret.world, s4.arg,
                    RefFields \ {"meaningPressure", "lastChronicleTurn"})
        worldAfterChronicle == s4.ret
        \* 6) update echoes (short-lived)
        echoes == generateEchoes(meanings, rng)
        s5 == updateEchoTTL(worldAfterChronicle.echoes \o echoes)
        in5 == [in4 EXCEPT !.echoes =
                    [i \in DOMAIN in4.echoes |->
                        IF i <= Len(worldAfterChronicle.echoes)
                           /\ worldAfterChronicle.echoes[i] = in4.echoes[i]
                        THEN s5.arg[i] ELSE in4.echoes[i]]]
        \* 7) advance time (turn/year)
        newTurn == in5.turn + 1
        yearIncrement == IF newTurn % 10 = 0 THEN 1 ELSE 0
        finalWorld == FinalWorld(worldAfterChronicle, newTurn, yearIncrement,
                                 logs, meanings, chronicles, s5.ret)
    IN  [result |-> [world |-> finalWorld, logs |-> logs,
                     meanings |-> meanings, chronicles |-> chronicles],
         world |-> in5,
         actions |-> [k \in 1..Len(actions) |-> ex[k].arg]]

-----------------------------------------------------------------------------
(* world/initialState.ts, world/sampleActions.ts, index.ts *)

initialWorld ==
    [year |-> 1, turn |-> 1, logs |-> <<>>, meanings |-> <<>>, echoes |-> <<>>,
     chronicles |-> <<>>, tendency |-> <<>>, meaningPressure |-> <<>>,
     lastChronicleTurn |-> <<>>]

sampleActions ==
    <<[actorId |-> "npc-1", type |-> "MOVE", tags |-> <<"RISKY">>],
      [actorId |-> "npc-2", type |-> "WAIT", tags |-> <<"SAFE">>]>>

\* The driver's actors
actors == <<"npc-1", "npc-2", "npc-3">>

\* The driver's action pool; SPEAK and ATTACK need a target
BASE_ACTION_POOL ==
    <<[type |-> "MOVE", tags |-> <<"NEUTRAL">>, needsTarget |-> FALSE],
      [type |-> "WAIT", tags |-> <<"SAFE">>, needsTarget |-> FALSE],
      [type |-> "SPEAK", tags |-> <<"SOCIAL">>, needsTarget |-> TRUE],
      [type |-> "ATTACK", tags |-> <<"RISKY", "AGGRESSIVE">>, needsTarget |-> TRUE]>>

\* generateAction's result when the roll selects pool entry c and, for a
\* candidate that needs one, pickRandomTarget selects `target`
generateAction(actorId, c, target) ==
    IF BASE_ACTION_POOL[c].needsTarget
    THEN [actorId |-> actorId, targetId |-> target,
          type |-> BASE_ACTION_POOL[c].type, tags |-> BASE_ACTION_POOL[c].tags]
    ELSE [actorId |-> actorId,
          type |-> BASE_ACTION_POOL[c].type, tags |-> BASE_ACTION_POOL[c].tags]

-----------------------------------------------------------------------------
(* modules/socialGraph.ts                                                   *)
(*                                                                          *)
(* A character id is a string, kept as a sequence of tokens so that the     *)
(* relationship id `${sourceId}->${targetId}` is their concatenation.       *)
(* nodes and relationships are Maps: insertion-ordered entry sequences.     *)
(* trust and intimacy are in units of 1/GUnit, powers in units of 1/PowUnit.*)

GUnit == 10 * 100
PowUnit == 100 * 100

createRelationshipId(sourceId, targetId) == sourceId \o <<"->">> \o targetId

createEmptySocialGraph == [nodes |-> <<>>, relationships |-> <<>>]

addCharacterNode(g, characterId) ==
    IF Has(g.nodes, characterId) THEN g
    ELSE [g EXCEPT !.nodes = Put(g.nodes, characterId,
                                 [id |-> characterId,
                                  outgoingRelations |-> <<>>,
                                  incomingRelations |-> <<>>])]

\* Mutant: Math.max(min, value), the upper bound is left out
clamp_NoMax(value, min, max) == IF value >= min THEN value ELSE min

\* Math.max(min, Math.min(max, value))
clamp(value, min, max) == Max(min, Min(max, value))

\* Per-turn decay rates, in units of 1/PowUnit
TRUST_DECAY_RATE == 200
INTIMACY_DECAY_RATE == 100

\* Mutant: delta.trust || INTERACTION_TRUST_GAIN, a zero delta counts as absent
DeltaTrust_OrGain(delta) ==
    IF "trust" \in DOMAIN delta /\ delta.trust # 0 THEN delta.trust ELSE 50

\* delta.trust ?? 0, delta.intimacy ?? 0
DeltaTrust(delta) == IF "trust" \in DOMAIN delta THEN delta.trust ELSE 0
DeltaIntimacy(delta) == IF "intimacy" \in DOMAIN delta THEN delta.intimacy ELSE 0

upsertRelationship(g, sourceId, targetId, delta, currentTurn) ==
    LET relationId == createRelationshipId(sourceId, targetId)
        newRelationship ==
            IF Has(g.relationships, relationId)
            THEN LET existing == Get(g.relationships, relationId)
                 IN  [existing EXCEPT
                        !.trust = clamp(existing.trust + DeltaTrust(delta), -GUnit, GUnit),
                        !.intimacy = clamp(existing.intimacy + DeltaIntimacy(delta), 0, GUnit),
                        !.interactions = existing.interactions + 1,
                        !.lastInteractionTurn = currentTurn]
            ELSE [sourceId |-> sourceId,
                  targetId |-> targetId,
                  trust |-> clamp(DeltaTrust(delta), -GUnit, GUnit),
                  intimacy |-> clamp(DeltaIntimacy(delta), 0, GUnit),
                  interactions |-> 1,
                  lastInteractionTurn |-> currentTurn]
        newRelationships == Put(g.relationships, relationId, newRelationship)
        \* source node: add to outgoing
        nodes1 ==
            IF Has(g.nodes, sourceId)
               /\ ~Includes(Get(g.nodes, sourceId).outgoingRelations, relationId)
            THEN Put(g.nodes, sourceId,
                     [Get(g.nodes, sourceId) EXCEPT
                        !.outgoingRelations = Append(@, relationId)])
            ELSE g.nodes
        \* target node: add to incoming
        nodes2 ==
            IF Has(nodes1, targetId)
               /\ ~Includes(Get(nodes1, targetId).incomingRelations, relationId)
            THEN Put(nodes1, targetId,
                     [Get(nodes1, targetId) EXCEPT
                        !.incomingRelations = Append(@, relationId)])
            ELSE nodes1
    IN  [nodes |-> nodes2, relationships |-> newRelationships]

\* Math.pow(base, n) for an integer n, base in units of 1/PowUnit
RECURSIVE MathPow(_, _)
MathPow(base, n) ==
    IF n = 0 THEN PowUnit
    ELSE IF n > 0 THEN QuotZ(MathPow(base, n - 1) * base, PowUnit)
    ELSE (PowUnit * PowUnit) \div MathPow(base, -n)

\* The new record of one relationship in decayRelationships
DecayOne(rel, currentTurn) ==
    LET turnsSince == currentTurn - rel.lastInteractionTurn
        decayedTrust ==
            QuotZ(rel.trust * MathPow(PowUnit - TRUST_DECAY_RATE, turnsSince), PowUnit)
        decayedIntimacy ==
            QuotZ(rel.intimacy * MathPow(PowUnit - INTIMACY_DECAY_RATE, turnsSince), PowUnit)
    IN  [rel EXCEPT !.trust = clamp(decayedTrust, -GUnit, GUnit),
                    !.intimacy = clamp(decayedIntimacy, 0, GUnit)]

decayRelationships(g, currentTurn) ==
    [g EXCEPT !.relationships =
        [i \in DOMAIN g.relationships |->
            [key |-> g.relationships[i].key,
             value |-> DecayOne(g.relationships[i].value, currentTurn)]]]

-----------------------------------------------------------------------------
(* socialGraph.ts: PageRank                                                 *)
(*                                                                          *)
(* A rank is in units of 1/RUnit.  A division by zero gives the double      *)
(* Infinity, kept as the value Infinity, which absorbs sums and products;   *)
(* Infinity - Infinity is NaN, which no comparison finds greater.           *)

RUnit == 1000 * 1000
Infinity == 1000 * RUnit

\* In hundredths
PAGERANK_DAMPING == 85
PAGERANK_ITERATIONS == 20
\* 1e-6, in units of 1/RUnit
PAGERANK_TOLERANCE == 1

\* a + b on doubles
NumAdd(a, b) == IF a = Infinity \/ b = Infinity THEN Infinity ELSE a + b

\* weight * sourceRank / outDegree, weight = 0.5 + 0.5 * ((trust + 1) / 2)
\* in units of 1/(4 * GUnit)
Contribution(rel, sourceRank, outDegree) ==
    LET weight == 2 * GUnit + (rel.trust + GUnit)
    IN  IF sourceRank = Infinity THEN Infinity
        ELSE IF outDegree = 0
        THEN Infinity      \* sourceRank > 0: every rank is at least 0.15 / n
        ELSE MulDiv(sourceRank, weight, 4 * GUnit) \div outDegree

\* The sum over node.incomingRelations
RECURSIVE IncomingSum(_, _, _)
IncomingSum(g, ranks, relIds) ==
    IF relIds = <<>> THEN 0
    ELSE LET relId == Head(relIds)
             term ==
                 IF ~Has(g.relationships, relId) THEN 0
                 ELSE LET rel == Get(g.relationships, relId)
                      IN  IF ~Has(g.nodes, rel.sourceId) THEN 0
                          ELSE Contribution(
                                   rel, GetOr(ranks, rel.sourceId, 0),
                                   Len(Get(g.nodes, rel.sourceId).outgoingRelations))
         IN  NumAdd(term, IncomingSum(g, ranks, Tail(relIds)))

\* Mutant: (1 - PAGERANK_DAMPING), not divided by n
BaseRank_Undivided(n) == ((100 - 85) * RUnit) \div 100

\* (1 - PAGERANK_DAMPING) / n
BaseRank(n) == ((100 - PAGERANK_DAMPING) * RUnit) \div (100 * n)

\* (1 - PAGERANK_DAMPING) / n + PAGERANK_DAMPING * sum
NewRank(g, ranks, nodeId, n) ==
    LET sum == IncomingSum(g, ranks, Get(g.nodes, nodeId).incomingRelations)
    IN  IF sum = Infinity THEN Infinity
        ELSE BaseRank(n) + MulDiv(sum, PAGERANK_DAMPING, 100)

\* newRanks of one iteration, in the order of nodeIds
NewRanks(g, ranks) ==
    [i \in DOMAIN g.nodes |->
        [key |-> g.nodes[i].key,
         value |-> NewRank(g, ranks, g.nodes[i].key, Len(g.nodes))]]

\* Math.abs(newRank - rank) > maxDiff for some node and every smaller
\* maxDiff below the tolerance: the loop does not break
NotConverged(newRanks, ranks) ==
    \E i \in DOMAIN newRanks :
        LET new == newRanks[i].value
            old == ranks[i].value
        IN  IF new = Infinity /\ old = Infinity THEN FALSE       \* NaN
            ELSE IF new = Infinity \/ old = Infinity THEN TRUE
            ELSE Abs(new - old) >= PAGERANK_TOLERANCE

\* The iteration loop from `iter` on; iterations counts the loop bodies run
RECURSIVE PageRankLoop(_, _, _)
PageRankLoop(g, ranks, iter) ==
    IF iter >= PAGERANK_ITERATIONS THEN [ranks |-> ranks, iterations |-> iter]
    ELSE CHOOSE r \in
            {IF NotConverged(newRanks, ranks)
             THEN PageRankLoop(g, newRanks, iter + 1)
             ELSE [ranks |-> ranks, iterations |-> iter + 1] :
                 newRanks \in {NewRanks(g, ranks)}} : TRUE

\* [ranks, iterations]: the Map returned and the number of loop bodies run
calculatePageRank(g) ==
    LET n == Len(g.nodes)
    IN  IF n = 0 THEN [ranks |-> <<>>, iterations |-> 0]
        ELSE PageRankLoop(g, [i \in DOMAIN g.nodes |->
                                 [key |-> g.nodes[i].key, value |-> RUnit \div n]],
                          0)

-----------------------------------------------------------------------------
(* socialGraph.ts: community detection                                      *)

\* `for (const relId of [...outgoing, ...incoming])`: the neighbours pushed
\* on the queue while `current` is expanded; visited does not change in
\* this loop
RECURSIVE NeighborLoop(_, _, _, _)
NeighborLoop(g, relIds, current, visited) ==
    IF relIds = <<>> THEN <<>>
    ELSE LET relId == Head(relIds)
             rest == NeighborLoop(g, Tail(relIds), current, visited)
         IN  IF Has(g.relationships, relId) /\ Get(g.relationships, relId).trust > 0
             THEN LET rel == Get(g.relationships, relId)
                      neighbor == IF rel.sourceId = current THEN rel.targetId
                                  ELSE rel.sourceId
                  IN  IF neighbor \notin visited THEN <<neighbor>> \o rest ELSE rest
             ELSE rest

\* `while (queue.length > 0)`; acc = [visited, communities]
RECURSIVE QueueLoop(_, _, _, _)
QueueLoop(g, queue, communityId, acc) ==
    IF queue = <<>> THEN acc
    ELSE LET current == Head(queue)
         IN  IF current \in acc.visited
             THEN QueueLoop(g, Tail(queue), communityId, acc)
             ELSE LET acc1 == [visited |-> acc.visited \cup {current},
                               communities |-> Put(acc.communities, current, communityId)]
                  IN  IF ~Has(g.nodes, current)
                      THEN QueueLoop(g, Tail(queue), communityId, acc1)
                      ELSE LET node == Get(g.nodes, current)
                           IN  QueueLoop(g,
                                         Tail(queue)
                                             \o NeighborLoop(g,
                                                   node.outgoingRelations \o node.incomingRelations,
                                                   current, acc1.visited),
                                         communityId, acc1)

\* `for (const nodeId of graph.nodes.keys())`
RECURSIVE CommunityLoop(_, _, _, _)
CommunityLoop(g, i, communityCounter, acc) ==
    IF i > Len(g.nodes) THEN acc
    ELSE IF g.nodes[i].key \in acc.visited
         THEN CommunityLoop(g, i + 1, communityCounter, acc)
         ELSE CommunityLoop(g, i + 1, communityCounter + 1,
                            QueueLoop(g, <<g.nodes[i].key>>,
                                      <<"community-", communityCounter>>, acc))

\* The Map nodeId -> communityId
detectCommunities(g) ==
    CommunityLoop(g, 1, 0, [visited |-> {}, communities |-> <<>>]).communities

-----------------------------------------------------------------------------
(* Floating point.  Where a claim is about the exact value of a double, the *)
(* model computes in binary floating point with round-to-nearest-even, as   *)
(* IEEE 754 does, with a significand of FBits bits instead of 53 and        *)
(* gradual underflow.  A number is an integer count of the smallest         *)
(* subnormal, 1/FOne; the numbers of magnitude below 2^FBits are all        *)
(* representable, above that every 2nd, 4th, 8th...                         *)

FBits == 4
FOne == 2^7

\* The binade of a >= 0: representable numbers near a are 2^FExp(a) apart
FExp(a) == CHOOSE e \in 0..16 : a < 2^(FBits + e) /\ (e = 0 \/ a >= 2^(FBits + e - 1))

\* The significand of a representable k >= 0 is even
MantEven(k) == (k \div 2^FExp(k)) % 2 = 0

\* The representable number nearest to num / den (den > 0), ties to even
RoundNE(num, den) ==
    LET n == Abs(num)
        q == n \div den
        sp == 2^FExp(q)
        lo == (q \div sp) * sp
        hi == lo + sp
        r == IF 2 * n < (lo + hi) * den THEN lo
             ELSE IF 2 * n > (lo + hi) * den THEN hi
             ELSE IF MantEven(lo) THEN lo ELSE hi
    IN  IF num < 0 THEN -r ELSE r

\* The double a decimal literal n/d denotes
FLit(n, d) == RoundNE(n * FOne, d)

\* a * b, a / b (b # 0), a + b, a - b on doubles
FMul(a, b) == RoundNE(a * b, FOne)
FDiv(a, b) == IF b > 0 THEN RoundNE(a * FOne, b) ELSE RoundNE(-a * FOne, -b)
FAdd(a, b) == RoundNE(a + b, 1)
FSub(a, b) == RoundNE(a - b, 1)

\* The doubles in [0, 1]
Probabilities == {k \in 0..FOne : RoundNE(k, 1) = k}

-----------------------------------------------------------------------------
(* modules/beliefSystem.ts                                                  *)
(*                                                                          *)
(* A function call is [ret, threw]: what it returns, and whether it         *)
(* signalled a failure instead of returning.                                *)

createBeliefState(characterId) == [characterId |-> characterId, beliefs |-> <<>>]

setInitialBelief(state, proposition, confidence, turn) ==
    [ret |-> [state EXCEPT !.beliefs =
                 Put(state.beliefs, proposition,
                     [proposition |-> proposition,
                      confidence |-> clamp(confidence, 0, FOne),
                      lastUpdatedTurn |-> turn,
                      sources |-> <<"initial">>])],
     threw |-> FALSE]

\* Mutant: likelihoodFalse * prior, the complement 1 - prior is left out
bayesianUpdate_NoComplement(prior, likelihoodTrue, likelihoodFalse) ==
    LET evidence == FAdd(FMul(likelihoodTrue, prior), FMul(likelihoodFalse, prior))
    IN  IF evidence = 0 THEN prior
        ELSE clamp(FDiv(FMul(likelihoodTrue, prior), evidence), 0, FOne)

bayesianUpdate(prior, likelihoodTrue, likelihoodFalse) ==
    LET evidence == FAdd(FMul(likelihoodTrue, prior),
                         FMul(likelihoodFalse, FSub(FOne, prior)))
    IN  IF evidence = 0 THEN prior
        ELSE clamp(FDiv(FMul(likelihoodTrue, prior), evidence), 0, FOne)

-----------------------------------------------------------------------------
(* Target selection: socialGraph.ts find..., actionSelector.ts, utilityAI.ts *)
(*                                                                          *)
(* A `string | undefined` result is [defined |-> FALSE] or                  *)
(* [defined |-> TRUE, value |-> id].                                        *)

Undefined == [defined |-> FALSE]
Defined(x) == [defined |-> TRUE, value |-> x]

\* graph.relationships.get(createRelationshipId(sourceId, targetId))
getRelationship(g, sourceId, targetId) ==
    LET relationId == createRelationshipId(sourceId, targetId)
    IN  IF Has(g.relationships, relationId)
        THEN Defined(Get(g.relationships, relationId))
        ELSE Undefined

\* for (const relId of node.outgoingRelations): keep the edge of most trust
RECURSIVE MostTrustedLoop(_, _, _, _)
MostTrustedLoop(g, relIds, maxTrust, mostTrusted) ==
    IF relIds = <<>> THEN mostTrusted
    ELSE IF Has(g.relationships, Head(relIds))
            /\ Get(g.relationships, Head(relIds)).trust > maxTrust
         THEN MostTrustedLoop(g, Tail(relIds),
                              Get(g.relationships, Head(relIds)).trust,
                              Defined(Get(g.relationships, Head(relIds)).targetId))
         ELSE MostTrustedLoop(g, Tail(relIds), maxTrust, mostTrusted)

findMostTrusted(g, characterId) ==
    IF ~Has(g.nodes, characterId) THEN Undefined
    ELSE MostTrustedLoop(g, Get(g.nodes, characterId).outgoingRelations,
                         -Infinity, Undefined)

\* for (const relId of node.outgoingRelations): keep the edge of least trust
RECURSIVE LeastTrustedLoop(_, _, _, _)
LeastTrustedLoop(g, relIds, minTrust, leastTrusted) ==
    IF relIds = <<>> THEN leastTrusted
    ELSE IF Has(g.relationships, Head(relIds))
            /\ Get(g.relationships, Head(relIds)).trust < minTrust
         THEN LeastTrustedLoop(g, Tail(relIds),
                               Get(g.relationships, Head(relIds)).trust,
                               Defined(Get(g.relationships, Head(relIds)).targetId))
         ELSE LeastTrustedLoop(g, Tail(relIds), minTrust, leastTrusted)

findLeastTrusted(g, characterId) ==
    IF ~Has(g.nodes, characterId) THEN Undefined
    ELSE LeastTrustedLoop(g, Get(g.nodes, characterId).outgoingRelations,
                          Infinity, Undefined)

\* for (const relId of node.outgoingRelations): keep the edge of most intimacy
RECURSIVE MostIntimateLoop(_, _, _, _)
MostIntimateLoop(g, relIds, maxIntimacy, mostIntimate) ==
    IF relIds = <<>> THEN mostIntimate
    ELSE IF Has(g.relationships, Head(relIds))
            /\ Get(g.relationships, Head(relIds)).intimacy > maxIntimacy
         THEN MostIntimateLoop(g, Tail(relIds),
                               Get(g.relationships, Head(relIds)).intimacy,
                               Defined(Get(g.relationships, Head(relIds)).targetId))
         ELSE MostIntimateLoop(g, Tail(relIds), maxIntimacy, mostIntimate)

findMostIntimate(g, characterId) ==
    IF ~Has(g.nodes, characterId) THEN Undefined
    ELSE MostIntimateLoop(g, Get(g.nodes, characterId).outgoingRelations,
                          -Infinity, Undefined)

\* rel?.intimacy ?? 0.1 and rel?.trust ?? 0, in units of 1/GUnit
IntimacyOr(rel) == IF rel.defined THEN rel.value.intimacy ELSE 100
TrustOr(rel) == IF rel.defined THEN rel.value.trust ELSE 0

\* intimacy * (1 + trust), in units of 1/(GUnit * GUnit)
SpeakScore(rel) == IntimacyOr(rel) * (GUnit + TrustOr(rel))

\* actionSelector.ts, the loop of selectSpeakTarget
RECURSIVE SpeakTargetLoop(_, _, _, _, _)
SpeakTargetLoop(actorId, candidates, g, bestScore, bestTarget) ==
    IF candidates = <<>> THEN bestTarget
    ELSE LET targetId == Head(candidates)
             score == SpeakScore(getRelationship(g, actorId, targetId))
         IN  IF targetId # actorId /\ score > bestScore
             THEN SpeakTargetLoop(actorId, Tail(candidates), g, score, Defined(targetId))
             ELSE SpeakTargetLoop(actorId, Tail(candidates), g, bestScore, bestTarget)

\* actionSelector.ts
selectSpeakTarget(actorId, candidates, g) ==
    IF Len(candidates) = 0 THEN Undefined
    ELSE SpeakTargetLoop(actorId, candidates, g, -Infinity, Undefined)

\* actionSelector.ts, the loop of selectAttackTarget
RECURSIVE AttackTargetLoop(_, _, _, _, _)
AttackTargetLoop(actorId, candidates, g, minScore, bestTarget) ==
    IF candidates = <<>> THEN bestTarget
    ELSE LET targetId == Head(candidates)
             trust == TrustOr(getRelationship(g, actorId, targetId))
         IN  IF targetId # actorId /\ trust < minScore
             THEN AttackTargetLoop(actorId, Tail(candidates), g, trust, Defined(targetId))
             ELSE AttackTargetLoop(actorId, Tail(candidates), g, minScore, bestTarget)

\* actionSelector.ts
selectAttackTarget(actorId, candidates, g) ==
    IF Len(candidates) = 0 THEN Undefined
    ELSE AttackTargetLoop(actorId, candidates, g, Infinity, Undefined)

\* utilityAI.ts: selectSpeakTarget(actorId, graph)
utilitySelectSpeakTarget(actorId, g) == findMostIntimate(g, actorId)

\* utilityAI.ts: selectAttackTarget(actorId, graph)
utilitySelectAttackTarget(actorId, g) == findLeastTrusted(g, actorId)

-----------------------------------------------------------------------------
(* utilityAI.ts                                                             *)
(*                                                                          *)
(* Need satisfactions and intelligence are in tenths.  Sigmoids, gates and  *)
(* need weights are in units of 1/WUnit, need impacts in units of 1/GUnit,  *)
(* outcome probabilities in units of 1/PUnit, and utilities in units of     *)
(* 1/(WUnit * GUnit).  Gates and weights are truncated to their unit.       *)

WUnit == 100 * 100

MASLOW_BASE_PRIORITY ==
    [survival |-> 5, safety |-> 4, social |-> 3, esteem |-> 2, selfActualization |-> 1]

\* In tenths
MASLOW_THRESHOLD == 3

\* 1 / (1 + Math.exp(-10 * x)) for x in tenths, -3 to 7, rounded to 1/WUnit
sigmoid(x) == <<474, 1192, 2689, 5000, 7311, 8808, 9526, 9820, 9933, 9975, 9991>>[x + 4]

calculateNeedWeights(needs) ==
    LET sSurvival == sigmoid(needs.survival - MASLOW_THRESHOLD)
        sSafety == sigmoid(needs.safety - MASLOW_THRESHOLD)
        sSocial == sigmoid(needs.social - MASLOW_THRESHOLD)
        sEsteem == sigmoid(needs.esteem - MASLOW_THRESHOLD)
        gateFactors ==
            [survival |-> WUnit,
             safety |-> sSurvival,
             social |-> MulDiv(sSurvival, sSafety, WUnit),
             esteem |-> MulDiv(MulDiv(sSurvival, sSafety, WUnit), sSocial, WUnit),
             selfActualization |->
                 MulDiv(MulDiv(MulDiv(sSurvival, sSafety, WUnit), sSocial, WUnit),
                        sEsteem, WUnit)]
    IN  [key \in DOMAIN needs |->
            ((10 - needs[key]) * MASLOW_BASE_PRIORITY[key] * gateFactors[key]) \div 10]

\* The outcomes of an action: needImpacts is a list of [key, value] entries
getActionOutcomes(actionType, hasTarget, targetRelationship) ==
    CASE actionType = "MOVE" ->
           <<[needImpacts |-> <<[key |-> "safety", value |-> 50]>>,
              probability |-> 9000],
             [needImpacts |-> <<[key |-> "safety", value |-> -100]>>,
              probability |-> 1000]>>
      [] actionType = "WAIT" ->
           <<[needImpacts |-> <<[key |-> "safety", value |-> 100],
                                [key |-> "survival", value |-> 20]>>,
              probability |-> PUnit]>>
      [] actionType = "SPEAK" ->
           IF ~hasTarget THEN <<[needImpacts |-> <<>>, probability |-> PUnit]>>
           ELSE LET speakTrust == TrustOr(targetRelationship)
                IN  <<[needImpacts |->
                          <<[key |-> "social",
                             value |-> (150 * (GUnit + speakTrust)) \div GUnit],
                            [key |-> "esteem", value |-> 50]>>,
                       probability |-> 7000 + 2 * speakTrust],
                      [needImpacts |-> <<[key |-> "social", value |-> -50]>>,
                       probability |-> 3000 - 2 * speakTrust]>>
      [] actionType = "ATTACK" ->
           IF ~hasTarget THEN <<[needImpacts |-> <<>>, probability |-> PUnit]>>
           ELSE <<[needImpacts |-> <<[key |-> "safety", value |-> -200],
                                     [key |-> "esteem", value |-> 100]>>,
                   probability |-> 6000],
                  [needImpacts |-> <<[key |-> "safety", value |-> -400],
                                     [key |-> "esteem", value |-> -100]>>,
                   probability |-> 4000]>>

\* The characters of an ActionType literal
ActionChars(type) ==
    CASE type = "MOVE" -> <<"M","O","V","E">>
      [] type = "WAIT" -> <<"W","A","I","T">>
      [] type = "SPEAK" -> <<"S","P","E","A","K">>
      [] type = "ATTACK" -> <<"A","T","T","A","C","K">>

\* String.prototype.charCodeAt, for letters
CharCodeAt(ch) ==
    IF \E k \in DOMAIN UpperLetters : UpperLetters[k] = ch
    THEN 64 + (CHOOSE k \in DOMAIN UpperLetters : UpperLetters[k] = ch)
    ELSE 96 + (CHOOSE k \in DOMAIN LowerLetters : LowerLetters[k] = ch)

\* The loop of hashToFloat.  hash is a 32-bit integer, kept as its two
\* 16-bit halves; ((hash << 5) - hash) + char is 31 * hash + char, and
\* hash & hash wraps it to 32 bits.
RECURSIVE HashLoop(_, _)
HashLoop(input, hash) ==
    IF input = <<>> THEN hash
    ELSE LET low == 31 * hash.lo + CharCodeAt(Head(input))
         IN  HashLoop(Tail(input),
                      [lo |-> low % 65536,
                       hi |-> (31 * hash.hi + low \div 65536) % 65536])

\* (Math.abs(hash) % 10000) / 10000, in units of 1/PUnit: a hash with the
\* sign bit set stands for hash - 2^32, and 2^32 % 10000 = 7296
hashToFloat(input) ==
    LET hash == HashLoop(input, [hi |-> 0, lo |-> 0])
        residue == ((hash.hi % 10000) * 5536 + hash.lo) % 10000
    IN  IF hash.hi >= 32768 THEN (7296 + 10000 - residue) % 10000 ELSE residue

\* value += weight * impact over the entries of needImpacts
RECURSIVE OutcomeValue(_, _)
OutcomeValue(needWeights, needImpacts) ==
    IF needImpacts = <<>> THEN 0
    ELSE (IF Head(needImpacts).key \in DOMAIN needWeights
          THEN needWeights[Head(needImpacts).key] ELSE 0) * Head(needImpacts).value
         + OutcomeValue(needWeights, Tail(needImpacts))

\* expectedUtility += outcome.probability * value over the outcomes
RECURSIVE OutcomesUtility(_, _)
OutcomesUtility(needWeights, outcomes) ==
    IF outcomes = <<>> THEN 0
    ELSE MulDiv(OutcomeValue(needWeights, Head(outcomes).needImpacts),
                Head(outcomes).probability, PUnit)
         + OutcomesUtility(needWeights, Tail(outcomes))

\* targetId is Undefined or Defined(id)
calculateExpectedUtility(actor, actionType, targetId, g) ==
    LET needWeights == calculateNeedWeights(actor.needs)
        targetRelationship ==
            IF targetId.defined THEN getRelationship(g, actor.id, targetId.value)
            ELSE Undefined
        outcomes == getActionOutcomes(actionType, targetId.defined, targetRelationship)
        \* (1 - intelligence) * 0.3, in hundredths
        noiseScale == (10 - actor.intelligence) * 3
        deterministicNoise ==
            hashToFloat(actor.id \o ActionChars(actionType)
                        \o (IF targetId.defined THEN targetId.value ELSE <<>>))
    IN  OutcomesUtility(needWeights, outcomes)
        + (deterministicNoise - 5000) * 2 * noiseScale * 10

\* Mutant: utility >= bestAction.expectedUtility, a tie goes to the later pair
Better_OrEqual(utility, bestAction) == utility >= bestAction.expectedUtility

\* utility > bestAction.expectedUtility
Better(utility, bestAction) == utility > bestAction.expectedUtility

\* for (const candidate of candidates), for a SPEAK or an ATTACK
RECURSIVE CandidateLoop(_, _, _, _, _)
CandidateLoop(actor, actionType, candidates, g, bestAction) ==
    IF candidates = <<>> THEN bestAction
    ELSE IF Head(candidates).id = actor.id
         THEN CandidateLoop(actor, actionType, Tail(candidates), g, bestAction)
         ELSE CHOOSE r \in
                 {CandidateLoop(actor, actionType, Tail(candidates), g,
                      IF Better(utility, bestAction)
                      THEN [action |-> actionType,
                            targetId |-> Defined(Head(candidates).id),
                            expectedUtility |-> utility]
                      ELSE bestAction) :
                    utility \in {calculateExpectedUtility(
                                    actor, actionType, Defined(Head(candidates).id), g)}} :
                 TRUE

\* for (const actionType of actionTypes)
RECURSIVE ActionTypeLoop(_, _, _, _, _)
ActionTypeLoop(actor, actionTypes, candidates, g, bestAction) ==
    IF actionTypes = <<>> THEN bestAction
    ELSE LET actionType == Head(actionTypes)
             needsTarget == actionType = "SPEAK" \/ actionType = "ATTACK"
         IN  CHOOSE r \in
                 {ActionTypeLoop(actor, Tail(actionTypes), candidates, g, next) :
                    next \in
                      {IF needsTarget
                       THEN CandidateLoop(actor, actionType, candidates, g, bestAction)
                       ELSE IF Better(calculateExpectedUtility(actor, actionType, Undefined, g),
                                      bestAction)
                            THEN [action |-> actionType,
                                  targetId |-> Undefined,
                                  expectedUtility |->
                                      calculateExpectedUtility(actor, actionType, Undefined, g)]
                            ELSE bestAction}} : TRUE

\* The UtilityResult without its reasoning texts; beliefs is not read
selectOptimalAction(actor, candidates, g, beliefs) ==
    ActionTypeLoop(actor, <<"MOVE", "WAIT", "SPEAK", "ATTACK">>, candidates, g,
                   [action |-> "WAIT", targetId |-> Undefined,
                    expectedUtility |-> -Infinity])

-----------------------------------------------------------------------------
(* Inputs *)

\* All three actors attack (pool entry 4), each the next actor
BusyActions ==
    <<generateAction("npc-1", 4, "npc-2"),
      generateAction("npc-2", 4, "npc-3"),
      generateAction("npc-3", 4, "npc-1")>>

\* All three actors speak (pool entry 3)
SocialActions ==
    <<generateAction("npc-1", 3, "npc-2"),
      generateAction("npc-2", 3, "npc-1"),
      generateAction("npc-3", 3, "npc-1")>>

ActionLists == {sampleActions, BusyActions, SocialActions, <<>>}

\* What the ambient random sources may yield in a call
Salts == {0, 1}

\* Action lists for a pair of runs.  simulateTurn takes any tags: three
\* RISKY moves, alone, with targets, followed by a SOCIAL action, or
\* followed by an AGGRESSIVE one.
RiskyMove(actorId) == [actorId |-> actorId, type |-> "MOVE", tags |-> <<"RISKY">>]
ThreeRisky == [k \in 1..3 |-> RiskyMove(actors[k])]
ThreeRiskyTargeted ==
    [k \in 1..3 |-> [actorId |-> actors[k], targetId |-> actors[(k % 3) + 1],
                     type |-> "MOVE", tags |-> <<"RISKY">>]]
RiskyThenSocial ==
    Append(ThreeRisky, [actorId |-> "npc-1", type |-> "SPEAK", tags |-> <<"SOCIAL">>])
RiskyThenAggressive ==
    Append(ThreeRisky, [actorId |-> "npc-1", type |-> "SPEAK", tags |-> <<"AGGRESSIVE">>])

PairLists == {ThreeRisky, ThreeRiskyTargeted, RiskyThenSocial, RiskyThenAggressive}

-----------------------------------------------------------------------------
(* State machine *)

\* The meaning type a chronicle summarises
TypeOfChronicle(c) == CHOOSE t \in MeaningType : ChronicleSummary(t) = c.summary

NoCall == [made |-> FALSE]

\* The record kept of a call simulateTurn(w, actions, meaningEngine)
CallRecord(w, actions, r) ==
    [made |-> TRUE,
     input |-> w, actions |-> actions,
     inputAfter |-> r.world, actionsAfter |-> r.actions,
     logs |-> r.result.logs, meanings |-> r.result.meanings,
     chronicles |-> r.result.chronicles]

Init ==
    /\ world = initialWorld
    /\ call = NoCall
    /\ emissions = <<>>
    /\ deviations = 0
    /\ world2 = initialWorld
    /\ call2 = NoCall
    /\ agree = [shape |-> TRUE, types |-> MeaningType, tones |-> TRUE]
    /\ graph = createEmptySocialGraph
    /\ gops = 0
    /\ gcall = [op |-> "none"]
    /\ beliefState = createBeliefState("npc-1")
    /\ bops = 0
    /\ bcall = [op |-> "none"]
    /\ pcall = [op |-> "none"]
    /\ plugins2 = <<>>

\* world = simulateTurn(world, actions, meaningEngine).world
Step(actions, salt) ==
    \E r \in {simulateTurn(world, actions, meaningEngine,
                           [salt |-> salt, tick |-> world.turn])} :
        /\ world' = r.result.world
        /\ call' = CallRecord(world, actions, r)
        /\ emissions' = emissions \o
               [i \in DOMAIN r.result.chronicles |->
                   [type |-> TypeOfChronicle(r.result.chronicles[i]),
                    turn |-> world.turn]]

\* Any action list, any outcome of the random sources
Turn ==
    /\ world.turn <= MaxTurn
    /\ \E actions \in ActionLists, salt \in Salts : Step(actions, salt)
    /\ UNCHANGED <<deviations, world2, call2, agree, pcall, plugins2,
                   graphVars, beliefVars>>

\* The driver's run: LongTurns turns from initialWorld.  The exploration
\* follows the run in which every actor attacks, and lets up to
\* MaxDeviations turns take any other input.
LongTurn ==
    /\ world.turn <= LongTurns
    /\ \E actions \in ActionLists, salt \in Salts :
          /\ IF actions = BusyActions /\ salt = 0
             THEN deviations' = deviations
             ELSE deviations < MaxDeviations /\ deviations' = deviations + 1
          /\ Step(actions, salt)
    /\ UNCHANGED <<world2, call2, agree, pcall, plugins2, graphVars, beliefVars>>

\* The actor id, type and tags of every action of a list
Shape(actions) ==
    [k \in DOMAIN actions |->
        [actorId |-> actions[k].actorId, type |-> actions[k].type,
         tags |-> actions[k].tags]]

\* The intensities of the meaning events of one type, in order
EventsOfType(meanings, type) ==
    LET sel == SelectSeq(meanings, LAMBDA m : m.type = type)
    IN  [k \in DOMAIN sel |-> sel[k].intensity]

\* The echo tone each meaning event stands for: negative for FEAR,
\* positive otherwise
ToneOfMeanings(meanings) ==
    [k \in DOMAIN meanings |->
        IF meanings[k].type = "FEAR" THEN "negative" ELSE "positive"]

\* Two runs from initialWorld, stepped together: run 1 takes actions and
\* the random outcome 0, run 2 takes actions2 and the random outcome 1.
PairTurn ==
    /\ world.turn <= MaxPairTurn
    /\ \E actions \in PairLists, actions2 \in PairLists :
        \E rs \in {[i \in {1, 2} |->
                      simulateTurn(IF i = 1 THEN world ELSE world2,
                                   IF i = 1 THEN actions ELSE actions2,
                                   meaningEngine,
                                   [salt |-> i - 1,
                                    tick |-> IF i = 1 THEN world.turn
                                             ELSE world2.turn])]} :
          /\ world' = rs[1].result.world
          /\ call' = CallRecord(world, actions, rs[1])
          /\ emissions' = emissions \o
                 [i \in DOMAIN rs[1].result.chronicles |->
                     [type |-> TypeOfChronicle(rs[1].result.chronicles[i]),
                      turn |-> world.turn]]
          /\ world2' = rs[2].result.world
          /\ call2' = CallRecord(world2, actions2, rs[2])
          /\ agree' =
                [shape |-> agree.shape /\ Shape(actions) = Shape(actions2),
                 types |-> {t \in agree.types :
                              EventsOfType(rs[1].result.meanings, t)
                                  = EventsOfType(rs[2].result.meanings, t)},
                 tones |-> agree.tones
                           /\ ToneOfMeanings(rs[1].result.meanings)
                                  = ToneOfMeanings(rs[2].result.meanings)]
    /\ UNCHANGED <<deviations, pcall, plugins2, graphVars, beliefVars>>

-----------------------------------------------------------------------------
(* Two engines with the same plugins, registered in different orders *)

\* Action lists whose meanings are of several types
PluginLists == {RiskyThenSocial, RiskyThenAggressive, BusyActions, SocialActions, <<>>}

\* MeaningEngine.register(plugin) on the engine of run 2, before its first
\* turn: each of the three plugins once, in any order
Register ==
    /\ ~call2.made
    /\ \E plugin \in {FearPlugin, TrustPlugin, RespectPlugin} :
          /\ ~Includes(plugins2, plugin)
          /\ plugins2' = Append(plugins2, plugin)
    /\ UNCHANGED <<world, call, emissions, deviations, world2, call2, agree, pcall,
                   graphVars, beliefVars>>

\* Run 1 with the engine the drivers build, run 2 with the engine registered
\* above; both take the same actions and the same random outcomes.
PluginTurn ==
    /\ Len(plugins2) = Len(meaningEngine)
    /\ world.turn <= MaxPluginTurn
    /\ \E actions \in PluginLists :
        \E rs \in {[i \in {1, 2} |->
                      simulateTurn(IF i = 1 THEN world ELSE world2,
                                   actions,
                                   IF i = 1 THEN meaningEngine ELSE plugins2,
                                   [salt |-> 0, tick |-> world.turn])]} :
          /\ world' = rs[1].result.world
          /\ call' = CallRecord(world, actions, rs[1])
          /\ emissions' = emissions \o
                 [i \in DOMAIN rs[1].result.chronicles |->
                     [type |-> TypeOfChronicle(rs[1].result.chronicles[i]),
                      turn |-> world.turn]]
          /\ world2' = rs[2].result.world
          /\ call2' = CallRecord(world2, actions, rs[2])
    /\ UNCHANGED <<deviations, agree, pcall, plugins2, graphVars, beliefVars>>

-----------------------------------------------------------------------------
(* Social graph operations *)

CharIds == {<<"a">>, <<"b">>}

\* delta arguments: trust and intimacy are optional
Deltas ==
    {[trust |-> 700, intimacy |-> 300],
     [trust |-> -1500],
     [intimacy |-> 1500],
     [trust |-> -300, intimacy |-> -200],
     [trust |-> 0, intimacy |-> 0]}

\* currentTurn arguments
TurnArgs == {1, 5}

AddCharacterNode ==
    /\ gops < MaxGraphOps
    /\ \E id \in CharIds :
          /\ graph' = addCharacterNode(graph, id)
          /\ gcall' = [op |-> "addCharacterNode", before |-> graph,
                       characterId |-> id]
    /\ gops' = gops + 1
    /\ UNCHANGED <<engineVars, beliefVars>>

UpsertRelationship ==
    /\ gops < MaxGraphOps
    /\ \E s \in CharIds, t \in CharIds, delta \in Deltas, turn \in TurnArgs :
          /\ graph' = upsertRelationship(graph, s, t, delta, turn)
          /\ gcall' = [op |-> "upsertRelationship", before |-> graph,
                       sourceId |-> s, targetId |-> t, delta |-> delta,
                       currentTurn |-> turn]
    /\ gops' = gops + 1
    /\ UNCHANGED <<engineVars, beliefVars>>

DecayRelationships ==
    /\ gops < MaxGraphOps
    /\ \E turn \in TurnArgs :
          /\ graph' = decayRelationships(graph, turn)
          /\ gcall' = [op |-> "decayRelationships", before |-> graph,
                       currentTurn |-> turn]
    /\ gops' = gops + 1
    /\ UNCHANGED <<engineVars, beliefVars>>

-----------------------------------------------------------------------------
(* Two decays in a row, of graphs built by upsertRelationship               *)

MaxDecayOps == 2      \* SpecDecay: upsertRelationship calls that build the graph

\* currentTurn arguments of the decays
DecayTurns == {1, 3, 5}

\* No relationship of the graph had its last interaction after the turn
NotBeforeInteractions(g, turn) ==
    \A i \in DOMAIN g.relationships : g.relationships[i].value.lastInteractionTurn <= turn

DecayUpsertRelationship ==
    /\ gcall.op \in {"none", "upsertRelationship"}
    /\ gops < MaxDecayOps
    /\ \E s \in CharIds, t \in CharIds, delta \in Deltas, turn \in {1, 3} :
          /\ graph' = upsertRelationship(graph, s, t, delta, turn)
          /\ gcall' = [op |-> "upsertRelationship", before |-> graph,
                       sourceId |-> s, targetId |-> t, delta |-> delta,
                       currentTurn |-> turn]
    /\ gops' = gops + 1
    /\ UNCHANGED <<engineVars, beliefVars>>

\* decayRelationships at a turn t1 not before the last interactions
DecayFirst ==
    /\ gcall.op = "upsertRelationship"
    /\ \E t1 \in DecayTurns :
          /\ NotBeforeInteractions(graph, t1)
          /\ graph' = decayRelationships(graph, t1)
          /\ gcall' = [op |-> "decayRelationships", calls |-> 1, before |-> graph,
                       currentTurn |-> t1]
    /\ UNCHANGED <<gops, engineVars, beliefVars>>

\* ... and then at a turn t2 >= t1, with no upsertRelationship in between.
\* atInteraction is the graph before the first decay, t1 the first decay's
\* turn.
DecaySecond ==
    /\ gcall.op = "decayRelationships"
    /\ gcall.calls = 1
    /\ \E t2 \in DecayTurns :
          /\ t2 >= gcall.currentTurn
          /\ graph' = decayRelationships(graph, t2)
          /\ gcall' = [op |-> "decayRelationships", calls |-> 2, before |-> graph,
                       currentTurn |-> t2, t1 |-> gcall.currentTurn,
                       atInteraction |-> gcall.before]
    /\ UNCHANGED <<gops, engineVars, beliefVars>>

-----------------------------------------------------------------------------
(* PageRank over graphs built by addCharacterNode and upsertRelationship,   *)
(* in any order                                                             *)

\* trust deltas of the edges
RankDeltas == {[trust |-> 700], [trust |-> -1500]}

RankAddCharacterNode ==
    /\ gops < MaxRankOps
    /\ \E id \in CharIds :
          /\ graph' = addCharacterNode(graph, id)
          /\ gcall' = [op |-> "addCharacterNode", before |-> graph,
                       characterId |-> id]
    /\ gops' = gops + 1
    /\ UNCHANGED <<engineVars, beliefVars>>

RankUpsertRelationship ==
    /\ gops < MaxRankOps
    /\ \E s \in CharIds, t \in CharIds, delta \in RankDeltas :
          /\ graph' = upsertRelationship(graph, s, t, delta, 1)
          /\ gcall' = [op |-> "upsertRelationship", before |-> graph,
                       sourceId |-> s, targetId |-> t, delta |-> delta,
                       currentTurn |-> 1]
    /\ gops' = gops + 1
    /\ UNCHANGED <<engineVars, beliefVars>>

CalculatePageRank ==
    /\ \E r \in {calculatePageRank(graph)} :
          gcall' = [op |-> "calculatePageRank", before |-> graph,
                    ranks |-> r.ranks, iterations |-> r.iterations]
    /\ UNCHANGED <<graph, gops, engineVars, beliefVars>>

-----------------------------------------------------------------------------
(* Community detection over graphs built by addCharacterNode and            *)
(* upsertRelationship, in any order                                         *)

MaxCommunityOps == 4  \* SpecCommunity: operations that build the graph

\* trust deltas of the edges: a gain, and a loss that takes a gain back to 0
CommunityDeltas == {[trust |-> 700], [trust |-> -700]}

CommunityAddCharacterNode ==
    /\ gcall.op \in {"none", "addCharacterNode", "upsertRelationship"}
    /\ gops < MaxCommunityOps
    /\ \E id \in {<<"a">>, <<"b">>, <<"c">>} :
          /\ graph' = addCharacterNode(graph, id)
          /\ gcall' = [op |-> "addCharacterNode", characterId |-> id]
    /\ gops' = gops + 1
    /\ UNCHANGED <<engineVars, beliefVars>>

CommunityUpsertRelationship ==
    /\ gcall.op \in {"none", "addCharacterNode", "upsertRelationship"}
    /\ gops < MaxCommunityOps
    /\ \E s \in {<<"a">>, <<"b">>, <<"c">>}, t \in {<<"a">>, <<"b">>, <<"c">>},
          delta \in CommunityDeltas :
          /\ s # t
          /\ graph' = upsertRelationship(graph, s, t, delta, 1)
          /\ gcall' = [op |-> "upsertRelationship", sourceId |-> s, targetId |-> t]
    /\ gops' = gops + 1
    /\ UNCHANGED <<engineVars, beliefVars>>

DetectCommunities ==
    /\ gcall.op \in {"none", "addCharacterNode", "upsertRelationship"}
    /\ \E r \in {detectCommunities(graph)} :
          gcall' = [op |-> "detectCommunities", communities |-> r]
    /\ UNCHANGED <<graph, gops, engineVars, beliefVars>>

-----------------------------------------------------------------------------
(* Target selection over graphs built by addCharacterNode and               *)
(* upsertRelationship: the actor's edges to the other characters            *)

\* The graph is built first and read afterwards: the helpers read it and
\* change nothing
Building == gcall.op \in {"none", "addCharacterNode", "upsertRelationship"}

Actor == <<"a">>
TargetIds == {<<"a">>, <<"b">>, <<"c">>}

TargetDeltas ==
    {[trust |-> -1000, intimacy |-> 500],
     [trust |-> 500, intimacy |-> 400]}

\* candidates arguments
CandidateLists ==
    {<<>>, <<Actor>>, <<<<"b">>, <<"c">>>>, <<<<"c">>, <<"b">>>>,
     <<Actor, <<"c">>, <<"b">>>>}

TargetAddCharacterNode ==
    /\ Building
    /\ gops < MaxTargetOps
    /\ \E id \in TargetIds :
          /\ graph' = addCharacterNode(graph, id)
          /\ gcall' = [op |-> "addCharacterNode", before |-> graph,
                       characterId |-> id]
    /\ gops' = gops + 1
    /\ UNCHANGED <<engineVars, beliefVars>>

TargetUpsertRelationship ==
    /\ Building
    /\ gops < MaxTargetOps
    /\ \E t \in TargetIds \ {Actor}, delta \in TargetDeltas :
          /\ graph' = upsertRelationship(graph, Actor, t, delta, 1)
          /\ gcall' = [op |-> "upsertRelationship", before |-> graph,
                       sourceId |-> Actor, targetId |-> t, delta |-> delta,
                       currentTurn |-> 1]
    /\ gops' = gops + 1
    /\ UNCHANGED <<engineVars, beliefVars>>

SelectSpeakTarget ==
    /\ \E candidates \in CandidateLists :
          gcall' = [op |-> "selectSpeakTarget", actorId |-> Actor,
                    candidates |-> candidates,
                    ret |-> selectSpeakTarget(Actor, candidates, graph)]
    /\ UNCHANGED <<graph, gops, engineVars, beliefVars>>

SelectAttackTarget ==
    /\ \E candidates \in CandidateLists :
          gcall' = [op |-> "selectAttackTarget", actorId |-> Actor,
                    candidates |-> candidates,
                    ret |-> selectAttackTarget(Actor, candidates, graph)]
    /\ UNCHANGED <<graph, gops, engineVars, beliefVars>>

UtilitySelectSpeakTarget ==
    /\ gcall' = [op |-> "utilitySelectSpeakTarget", actorId |-> Actor,
                 ret |-> utilitySelectSpeakTarget(Actor, graph)]
    /\ UNCHANGED <<graph, gops, engineVars, beliefVars>>

UtilitySelectAttackTarget ==
    /\ gcall' = [op |-> "utilitySelectAttackTarget", actorId |-> Actor,
                 ret |-> utilitySelectAttackTarget(Actor, graph)]
    /\ UNCHANGED <<graph, gops, engineVars, beliefVars>>

-----------------------------------------------------------------------------
(* Action selection over the same graphs *)

\* createDefaultNeedState()
createDefaultNeedState ==
    [survival |-> 7, safety |-> 6, social |-> 5, esteem |-> 4, selfActualization |-> 3]

\* needs arguments: the default, all but esteem and self-actualization met,
\* and all met
NeedStates ==
    {createDefaultNeedState,
     [survival |-> 10, safety |-> 10, social |-> 10, esteem |-> 4, selfActualization |-> 3],
     [survival |-> 10, safety |-> 10, social |-> 10, esteem |-> 10, selfActualization |-> 10]}

\* actor ids: the character whose edges the graph holds, and another
ActorIds == {Actor, <<"c">>}

\* intelligence arguments, in tenths
Intelligences == {10, 5}

\* The CharacterState of an id, as far as a candidate is read
Candidate(id) == [id |-> id]

\* candidates arguments
CandidateStates ==
    {[i \in DOMAIN list |-> Candidate(list[i])] : list \in CandidateLists}

\* One selection per behaviour
SelectOptimalAction ==
    /\ Building
    /\ \E id \in ActorIds, needs \in NeedStates, intelligence \in Intelligences,
          candidates \in CandidateStates :
          \E actor \in {[id |-> id, needs |-> needs, intelligence |-> intelligence]} :
             gcall' = [op |-> "selectOptimalAction", actor |-> actor,
                       candidates |-> candidates,
                       ret |-> selectOptimalAction(actor, candidates, graph, beliefState)]
    /\ UNCHANGED <<graph, gops, engineVars, beliefVars>>

-----------------------------------------------------------------------------
(* Action probability inclination *)

\* base arguments, in hundredths
Bases == {-100, -5, 0, 5, 30, 100}

\* tags arguments: those of the action pool, none, and one tag twice
TagLists ==
    {<<>>, <<"NEUTRAL">>, <<"RISKY">>, <<"RISKY", "AGGRESSIVE">>,
     <<"SAFE", "SOCIAL">>, <<"RISKY", "RISKY">>}

\* world.tendency arguments: up to two entries, of one tag or of two
TendencyEntries ==
    [tag : {"RISKY", "AGGRESSIVE", "SAFE"}, weight : {TENDENCY_MIN, -10, 8, TENDENCY_MAX}]
TendencyLists ==
    {<<>>} \cup {<<e>> : e \in TendencyEntries}
           \cup {<<e, f>> : e \in TendencyEntries, f \in TendencyEntries}

\* One call of the pure function per behaviour
InclineActionProbability ==
    /\ pcall.op = "none"
    /\ \E base \in Bases, tags \in TagLists, tendency \in TendencyLists :
          pcall' = [op |-> "inclineActionProbability", base |-> base,
                    tags |-> tags, tendency |-> tendency,
                    ret |-> inclineActionProbability(
                                base, tags, [initialWorld EXCEPT !.tendency = tendency])]
    /\ UNCHANGED <<world, call, emissions, deviations, world2, call2, agree,
                   plugins2, graphVars, beliefVars>>

-----------------------------------------------------------------------------
(* Echo amplification of a pressure map *)

MaxEchoes == 2        \* SpecEcho: echoes of the world given to applyEchoToPressure

\* Pressure values: none, one FEAR event, the threshold, and above it
PressureValues == {0, (4 * PUnit) \div 10, 2 * PUnit, 31337}

\* meaningPressure arguments: entries for any of the types, in any order
PressureMaps ==
    {m \in UNION {[1..n -> [key : MeaningType, value : PressureValues]] : n \in 0..3} :
        \A i \in DOMAIN m, j \in DOMAIN m : m[i].key = m[j].key => i = j}

\* An Echo of the given tone
EchoOf(tone, k) ==
    [id |-> <<"echo", k>>, originMeaningId |-> <<"meaning", k>>, tone |-> tone,
     distortion |-> 50, ttl |-> 1 + (k % 2), scope |-> [locationId |-> "LOCAL"]]

\* echoes arguments: up to MaxEchoes echoes of any tones
EchoLists ==
    {[k \in DOMAIN tones |-> EchoOf(tones[k], k)] :
        tones \in UNION {[1..n -> {"positive", "negative", "ambiguous"}] : n \in 0..MaxEchoes}}

\* A world in the middle of a run: turn 5, a tendency, a FEAR chronicle
\* emitted in turn 1
MidWorld ==
    [initialWorld EXCEPT
        !.turn = 5,
        !.tendency = <<[tag |-> "RISKY", weight |-> -10], [tag |-> "SAFE", weight |-> 8]>>,
        !.lastChronicleTurn = ("FEAR" :> 1),
        !.chronicles = <<[id |-> <<"chronicle", 1>>, year |-> 1,
                          summary |-> ChronicleSummary("FEAR"),
                          derivedMeaningIds |-> <<>>, scope |-> "LOCAL"]>>]

\* One call of the pure function per behaviour
ApplyEchoToPressure ==
    /\ pcall.op = "none"
    /\ \E pressure \in PressureMaps, echoes \in EchoLists :
          LET w == [MidWorld EXCEPT !.meaningPressure = pressure, !.echoes = echoes]
          IN  \E r \in {applyEchoToPressure(w)} :
                pcall' = [op |-> "applyEchoToPressure", input |-> w,
                          ret |-> r.ret, arg |-> r.arg]
    /\ UNCHANGED <<world, call, emissions, deviations, world2, call2, agree,
                   plugins2, graphVars, beliefVars>>

-----------------------------------------------------------------------------
(* Chronicle emission from a pressure map *)

\* world.turn arguments
EmissionTurns == {4, 5}

\* Turns of the last chronicle of a type
LastTurns == {1, 3}

\* lastChronicleTurn arguments: any of the types may have no entry
LastTurnMaps ==
    UNION {[types -> LastTurns] : types \in SUBSET MeaningType}

\* The record kept of a call generateChronicleFromPressure(w)
ChronicleCall(w, r, step, prev) ==
    [op |-> "generateChronicleFromPressure", step |-> step, input |-> w,
     ret |-> r.ret.world, chronicles |-> r.ret.chronicles, arg |-> r.arg,
     prev |-> prev]

\* A first call, on a world with one live echo
GenerateChronicleFromPressure ==
    /\ pcall.op = "none"
    /\ \E pressure \in PressureMaps, lastTurn \in LastTurnMaps, turn \in EmissionTurns :
          LET w == [MidWorld EXCEPT !.meaningPressure = pressure,
                                    !.lastChronicleTurn = lastTurn,
                                    !.turn = turn,
                                    !.echoes = <<EchoOf("negative", 1)>>]
          IN  \E r \in {generateChronicleFromPressure(w, [salt |-> 0, tick |-> turn])} :
                pcall' = ChronicleCall(w, r, 1, [op |-> "none"])
    /\ UNCHANGED <<world, call, emissions, deviations, world2, call2, agree,
                   plugins2, graphVars, beliefVars>>

\* The call of the next turn, on the world the first call returned, with
\* the pressure back at what the first call was given
GenerateChronicleNextTurn ==
    /\ pcall.op = "generateChronicleFromPressure"
    /\ pcall.step = 1
    /\ LET w == [pcall.ret EXCEPT !.meaningPressure = pcall.input.meaningPressure,
                                  !.turn = @ + 1]
       IN  \E r \in {generateChronicleFromPressure(w, [salt |-> 0, tick |-> w.turn])} :
             pcall' = ChronicleCall(w, r, 2, [input |-> pcall.input,
                                              chronicles |-> pcall.chronicles])
    /\ UNCHANGED <<world, call, emissions, deviations, world2, call2, agree,
                   plugins2, graphVars, beliefVars>>

-----------------------------------------------------------------------------
(* Tendency update from a list of chronicles *)

MaxChronicles == 3    \* SpecTendency: chronicles given to applyChronicleTendency

\* A ChronicleEntry of a type, as generateChronicleFromPressure builds it
ChronicleOf(type, k) ==
    [id |-> <<"chronicle", k>>, year |-> 1, summary |-> ChronicleSummary(type),
     derivedMeaningIds |-> <<>>, scope |-> "LOCAL"]

\* chronicles arguments: up to MaxChronicles chronicles of any types
ChronicleLists ==
    {[k \in DOMAIN types |-> ChronicleOf(types[k], k)] :
        types \in UNION {[1..n -> MeaningType] : n \in 0..MaxChronicles}}

\* world.tendency arguments, as the function itself leaves them: at most one
\* entry per tag, every weight within the bounds
WeightEntries ==
    [tag : ActionTag, weight : {TENDENCY_MIN, -55, 8, 57}]
WeightLists ==
    {<<>>} \cup {<<e>> : e \in WeightEntries}
           \cup {l \in {<<e, f>> : e \in WeightEntries, f \in WeightEntries} :
                     l[1].tag # l[2].tag}

\* One call of the pure function per behaviour
ApplyChronicleTendency ==
    /\ pcall.op = "none"
    /\ \E tendency \in WeightLists, chronicles \in ChronicleLists :
          LET w == [MidWorld EXCEPT !.tendency = tendency]
          IN  \E r \in {applyChronicleTendency(w, chronicles)} :
                pcall' = [op |-> "applyChronicleTendency", input |-> w,
                          chronicles |-> chronicles, ret |-> r.ret, arg |-> r.arg]
    /\ UNCHANGED <<world, call, emissions, deviations, world2, call2, agree,
                   plugins2, graphVars, beliefVars>>

-----------------------------------------------------------------------------
(* Belief system operations *)

Propositions == {"king is good", "war is coming", "harvest fails"}

\* confidence arguments, in and out of [0, 1]
Confidences == {FLit(-1, 2), 0, FLit(3, 10), FOne, FLit(3, 2)}

SetInitialBelief ==
    /\ bops < MaxBeliefOps
    /\ \E proposition \in Propositions, confidence \in Confidences, turn \in {1, 2} :
          \E r \in {setInitialBelief(beliefState, proposition, confidence, turn)} :
             /\ beliefState' = IF r.threw THEN beliefState ELSE r.ret
             /\ bcall' = [op |-> "setInitialBelief", before |-> beliefState,
                          proposition |-> proposition, confidence |-> confidence,
                          turn |-> turn, threw |-> r.threw]
    /\ bops' = bops + 1
    /\ UNCHANGED <<engineVars, graphVars>>

\* likelihoodFalse arguments that differ from likelihoodTrue
OtherLikelihoods == {0, FLit(2, 10), FLit(1, 2), FLit(8, 10), FOne}

\* One call of the pure function per behaviour
BayesianUpdate ==
    /\ bcall.op = "none"
    /\ \E prior \in Probabilities, likelihoodTrue \in Probabilities :
          \E likelihoodFalse \in {likelihoodTrue} \cup OtherLikelihoods :
             bcall' = [op |-> "bayesianUpdate", prior |-> prior,
                       likelihoodTrue |-> likelihoodTrue,
                       likelihoodFalse |-> likelihoodFalse,
                       ret |-> bayesianUpdate(prior, likelihoodTrue, likelihoodFalse)]
    /\ UNCHANGED <<beliefState, bops, engineVars, graphVars>>

-----------------------------------------------------------------------------
(* Specifications *)

Next == Turn
Spec == Init /\ [][Next]_vars

NextLong == LongTurn
SpecLong == Init /\ [][NextLong]_vars

NextPair == PairTurn
SpecPair == Init /\ [][NextPair]_vars

NextPlugins == Register \/ PluginTurn
SpecPlugins == Init /\ [][NextPlugins]_vars

NextGraph == AddCharacterNode \/ UpsertRelationship \/ DecayRelationships
SpecGraph == Init /\ [][NextGraph]_vars

NextDecay == DecayUpsertRelationship \/ DecayFirst \/ DecaySecond
SpecDecay == Init /\ [][NextDecay]_vars

NextRank == RankAddCharacterNode \/ RankUpsertRelationship \/ CalculatePageRank
SpecRank == Init /\ [][NextRank]_vars

NextCommunity ==
    CommunityAddCharacterNode \/ CommunityUpsertRelationship \/ DetectCommunities
SpecCommunity == Init /\ [][NextCommunity]_vars

NextTarget ==
    \/ TargetAddCharacterNode
    \/ TargetUpsertRelationship
    \/ SelectSpeakTarget
    \/ SelectAttackTarget
    \/ UtilitySelectSpeakTarget
    \/ UtilitySelectAttackTarget
SpecTarget == Init /\ [][NextTarget]_vars

NextSelect ==
    \/ TargetAddCharacterNode
    \/ TargetUpsertRelationship
    \/ SelectOptimalAction
SpecSelect == Init /\ [][NextSelect]_vars

NextIncline == InclineActionProbability
SpecIncline == Init /\ [][NextIncline]_vars

NextEcho == ApplyEchoToPressure
SpecEcho == Init /\ [][NextEcho]_vars

NextChronicle == GenerateChronicleFromPressure \/ GenerateChronicleNextTurn
SpecChronicle == Init /\ [][NextChronicle]_vars

NextTendency == ApplyChronicleTendency
SpecTendency == Init /\ [][NextTendency]_vars

NextBelief == SetInitialBelief
SpecBelief == Init /\ [][NextBelief]_vars

NextBayes == BayesianUpdate
SpecBayes == Init /\ [][NextBayes]_vars

-----------------------------------------------------------------------------
(* Properties *)

\* The meaning types of the chronicles a call emitted
EmittedTypes(c) == {TypeOfChronicle(c.chronicles[i]) : i \in DOMAIN c.chronicles}

\* C1: any two chronicles of the same meaning type are emitted in turns
\* whose numbers differ by at least 3.
C1_ChronicleGap ==
    \A i \in DOMAIN emissions : \A j \in DOMAIN emissions :
        (i < j /\ emissions[i].type = emissions[j].type)
            => emissions[j].turn - emissions[i].turn >= 3

\* Two chronicles of one type exactly 3 turns apart, the later one emitted by
\* the last call.
C1_Witness ==
    \E i \in DOMAIN emissions : \E j \in DOMAIN emissions :
        /\ emissions[i].type = emissions[j].type
        /\ emissions[j].turn = emissions[i].turn + 3
        /\ emissions[j].turn + 1 = world.turn

\* C2: in every world state reachable from initialWorld every tendency weight
\* lies in [-0.6, 0.6].
C2_TendencyBounded ==
    \A i \in DOMAIN world.tendency :
        /\ world.tendency[i].weight >= -60
        /\ world.tendency[i].weight <= 60

\* A seventh FEAR chronicle has been applied: RISKY, lowered by 0.10 seven
\* times, stands at the lower bound.
C2_Witness ==
    /\ Cardinality({i \in DOMAIN emissions : emissions[i].type = "FEAR"}) >= 7
    /\ \E i \in DOMAIN world.tendency :
          world.tendency[i].tag = "RISKY" /\ world.tendency[i].weight = -60

\* C3: simulateTurn never mutates its input: after the call every field of
\* the input world and the proposed action list are as before the call.
C3_InputNotMutated ==
    call.made =>
        /\ \A f \in DOMAIN call.input : call.inputAfter[f] = call.input[f]
        /\ call.actionsAfter = call.actions

\* A call in which every stage had work to do: actions, meanings, live
\* echoes, pressure and an emitted chronicle.
C3_Witness ==
    /\ call.made
    /\ call.actions # <<>> /\ call.meanings # <<>> /\ call.chronicles # <<>>
    /\ call.input.echoes # <<>> /\ call.input.meaningPressure # <<>>
    /\ call.input.tendency # <<>>

\* What C4 compares between two runs
Observed(w) ==
    [pressure |-> w.meaningPressure, tendency |-> w.tendency,
     lastChronicleTurn |-> w.lastChronicleTurn, turn |-> w.turn, year |-> w.year,
     chronicles |-> [i \in DOMAIN w.chronicles |->
                        [year |-> w.chronicles[i].year,
                         summary |-> w.chronicles[i].summary]]]

\* C4: two runs from the same state that receive, turn by turn, action lists
\* with the same actor ids, types and tags have after every turn the same
\* pressure map, tendency, lastChronicleTurn, turn, year and chronicle years
\* and summaries, whatever ids, timestamps and distortions were drawn.
C4_Deterministic ==
    agree.shape => Observed(world) = Observed(world2)

\* Two runs with equal shapes but different targets, ids, timestamps and
\* distortions, in which a chronicle was emitted under live echoes.
C4_Witness ==
    /\ agree.shape /\ call.made
    /\ call.actions # call2.actions
    /\ call.chronicles # <<>> /\ call.input.echoes # <<>>
    /\ \A i \in DOMAIN world.logs :
          /\ world.logs[i].id # world2.logs[i].id
          /\ world.logs[i].timestamp # world2.logs[i].timestamp
    /\ \E i \in DOMAIN world.echoes :
          world.echoes[i].distortion # world2.echoes[i].distortion

\* Pressure of a type, 0 for a type without an entry
PressureOf(w, type) == GetOr(w.meaningPressure, type, 0)

\* Run 1 and run 2 have the same pressure of the type and emitted, or did not
\* emit, a chronicle of the type in their last turn alike.
SameTrajectory(type) ==
    /\ PressureOf(world, type) = PressureOf(world2, type)
    /\ call.made => (type \in EmittedTypes(call) <=> type \in EmittedTypes(call2))

\* C5 as stated: the pressure trajectory and the emission turns of a type
\* depend only on the meaning events of that type.
C5_TypeIndependent ==
    \A type \in agree.types : SameTrajectory(type)

\* C5 as amended: ... provided the meaning events of the two runs also stand
\* for the same sequence of echo tones in every turn.
C5_TypeIndependentGivenTones ==
    agree.tones => \A type \in agree.types : SameTrajectory(type)

\* The runs agreed on FEAR and on the tones, differed on another type, and a
\* FEAR chronicle was emitted under live echoes.
C5_Witness ==
    /\ call.made /\ agree.tones
    /\ "FEAR" \in agree.types /\ agree.types # MeaningType
    /\ "FEAR" \in EmittedTypes(call)
    /\ call.input.echoes # <<>>
    /\ world.meaningPressure # world2.meaningPressure

\* C6: across one simulateTurn the pressure of a type does not fall unless a
\* chronicle of the type is emitted in the turn, and no pressure is negative.
C6_PressureMonotone ==
    /\ \A i \in DOMAIN world.meaningPressure : world.meaningPressure[i].value >= 0
    /\ call.made =>
          \A type \in MeaningType :
              type \notin EmittedTypes(call)
                  => PressureOf(world, type) >= PressureOf(call.input, type)

\* A turn in which one type, over the threshold but within the cooldown, kept
\* growing, while another type emitted and fell.
C6_Witness ==
    /\ call.made
    /\ \E type \in MeaningType :
          /\ type \notin EmittedTypes(call)
          /\ PressureOf(call.input, type) >= 2 * PUnit
          /\ PressureOf(world, type) > PressureOf(call.input, type)
    /\ \E type \in EmittedTypes(call) :
          PressureOf(world, type) < PressureOf(call.input, type)

\* C7: no returned world holds an echo with ttl <= 0, and every echo present
\* before and after a turn has its ttl lowered by exactly 1.
C7_EchoTtl ==
    /\ \A i \in DOMAIN world.echoes : world.echoes[i].ttl > 0
    /\ call.made =>
          \A i \in DOMAIN call.input.echoes : \A j \in DOMAIN world.echoes :
              call.input.echoes[i].id = world.echoes[j].id
                  => world.echoes[j].ttl = call.input.echoes[i].ttl - 1

\* A turn that dropped an echo of ttl 1 and kept another, aged by one.
C7_Witness ==
    /\ call.made
    /\ \E i \in DOMAIN call.input.echoes :
          /\ call.input.echoes[i].ttl = 1
          /\ \A j \in DOMAIN world.echoes :
                world.echoes[j].id # call.input.echoes[i].id
    /\ \E i \in DOMAIN call.input.echoes : \E j \in DOMAIN world.echoes :
          /\ call.input.echoes[i].id = world.echoes[j].id
          /\ world.echoes[j].ttl = 1

\* C8: logs, meanings and chronicles of the returned world are the input's
\* lists followed by this turn's new entries in order.
C8_AppendOnly ==
    call.made =>
        /\ world.logs = call.input.logs \o call.logs
        /\ world.meanings = call.input.meanings \o call.meanings
        /\ world.chronicles = call.input.chronicles \o call.chronicles

\* A turn that appended to a non-empty history of each kind.
C8_Witness ==
    /\ call.made
    /\ call.input.logs # <<>> /\ call.logs # <<>>
    /\ call.input.meanings # <<>> /\ call.meanings # <<>>
    /\ call.input.chronicles # <<>> /\ call.chronicles # <<>>

\* C9: simulateTurn returns one log per proposed action, in order, carrying
\* the action's actor id, target id (when it has one), type and tags, and
\* adding only an id and a timestamp.
C9_LogCarriesAction ==
    call.made =>
        /\ Len(call.logs) = Len(call.actions)
        /\ \A k \in DOMAIN call.actions :
              /\ DOMAIN call.logs[k] = DOMAIN call.actions[k] \cup {"id", "timestamp"}
              /\ \A f \in DOMAIN call.actions[k] :
                    f \in DOMAIN call.logs[k] /\ call.logs[k][f] = call.actions[k][f]

-----------------------------------------------------------------------------
(* Social graph contracts *)

\* The last call was upsertRelationship with zero deltas on an edge that
\* the graph it was given already held
ZeroDeltaOnExisting ==
    /\ gcall.op = "upsertRelationship"
    /\ gcall.delta = [trust |-> 0, intimacy |-> 0]
    /\ Has(gcall.before.relationships,
           createRelationshipId(gcall.sourceId, gcall.targetId))

\* Every edge but `relationId` is the same, at the same place, in both maps
OtherEdgesSame(before, after, relationId) ==
    /\ Len(after) = Len(before)
    /\ \A i \in DOMAIN before :
          /\ after[i].key = before[i].key
          /\ before[i].key # relationId => after[i] = before[i]

\* C11 (as claimed): a zero-delta upsertRelationship on an existing edge
\* changes only the edge's lastInteractionTurn: trust, intimacy and the
\* interaction count of the edge, every other edge and every node's
\* adjacency lists are as before the call.
C11_ZeroDeltaOnlyTurn ==
    ZeroDeltaOnExisting =>
        LET relationId == createRelationshipId(gcall.sourceId, gcall.targetId)
            old == Get(gcall.before.relationships, relationId)
            new == Get(graph.relationships, relationId)
        IN  /\ new.trust = old.trust
            /\ new.intimacy = old.intimacy
            /\ new.interactions = old.interactions
            /\ OtherEdgesSame(gcall.before.relationships, graph.relationships,
                              relationId)
            /\ graph.nodes = gcall.before.nodes

\* The adjacency lists of one node after upsertRelationship: as before,
\* but an endpoint that did not list the edge has gained its id
AdjacencyRefreshed(old, new, relationId, sourceId, targetId) ==
    /\ new.id = old.id
    /\ new.outgoingRelations =
          IF old.id = sourceId /\ ~Includes(old.outgoingRelations, relationId)
          THEN Append(old.outgoingRelations, relationId)
          ELSE old.outgoingRelations
    /\ new.incomingRelations =
          IF old.id = targetId /\ ~Includes(old.incomingRelations, relationId)
          THEN Append(old.incomingRelations, relationId)
          ELSE old.incomingRelations

\* C11 (amended): a zero-delta upsertRelationship on an existing edge keeps
\* the edge's trust and intimacy and every other edge, sets the edge's
\* lastInteractionTurn to the given turn and raises its interaction count
\* by one; a node's adjacency lists are as before, except that an endpoint
\* that did not yet list the edge gains the edge's id.
C11_ZeroDeltaRefresh ==
    ZeroDeltaOnExisting =>
        LET relationId == createRelationshipId(gcall.sourceId, gcall.targetId)
            old == Get(gcall.before.relationships, relationId)
            new == Get(graph.relationships, relationId)
        IN  /\ new = [old EXCEPT !.interactions = old.interactions + 1,
                                 !.lastInteractionTurn = gcall.currentTurn]
            /\ OtherEdgesSame(gcall.before.relationships, graph.relationships,
                              relationId)
            /\ Len(graph.nodes) = Len(gcall.before.nodes)
            /\ \A i \in DOMAIN graph.nodes :
                  /\ graph.nodes[i].key = gcall.before.nodes[i].key
                  /\ AdjacencyRefreshed(gcall.before.nodes[i].value,
                                        graph.nodes[i].value, relationId,
                                        gcall.sourceId, gcall.targetId)

\* A zero-delta upsertRelationship has refreshed the turn of an edge with
\* non-zero trust, in a graph that holds a node.
C11_Witness ==
    /\ ZeroDeltaOnExisting
    /\ LET relationId == createRelationshipId(gcall.sourceId, gcall.targetId)
           old == Get(gcall.before.relationships, relationId)
       IN  /\ old.trust # 0
           /\ old.lastInteractionTurn # gcall.currentTurn
    /\ Len(graph.nodes) >= 1

\* C12: after decayRelationships(graph, turn) every edge's trust has the
\* sign it had (or is zero) and no larger magnitude, and its intimacy is no
\* larger than before.
C12_DecayShrinks ==
    gcall.op = "decayRelationships" =>
        \A i \in DOMAIN gcall.before.relationships :
            LET old == gcall.before.relationships[i].value
                new == graph.relationships[i].value
            IN  /\ old.trust >= 0 => new.trust >= 0
                /\ old.trust <= 0 => new.trust <= 0
                /\ Abs(new.trust) <= Abs(old.trust)
                /\ new.intimacy <= old.intimacy

\* The sources of the contributions calculatePageRank sums over graph g:
\* the out-degree of the source node of every incoming relation it follows
OutDegreesSummed(g) ==
    {Len(Get(g.nodes, Get(g.relationships, relId).sourceId).outgoingRelations) :
        relId \in {id \in UNION {{g.nodes[i].value.incomingRelations[k] :
                                    k \in DOMAIN g.nodes[i].value.incomingRelations} :
                                 i \in DOMAIN g.nodes} :
                     /\ Has(g.relationships, id)
                     /\ Has(g.nodes, Get(g.relationships, id).sourceId)}}

\* C13: on every graph built by addCharacterNode and upsertRelationship
\* calls in any order, calculatePageRank returns a finite rank for every
\* node, divides every contribution by an out-degree of at least 1 and runs
\* at most 20 iterations.
C13_PageRankFinite ==
    gcall.op = "calculatePageRank" =>
        /\ Len(gcall.ranks) = Len(gcall.before.nodes)
        /\ \A i \in DOMAIN gcall.ranks : gcall.ranks[i].value # Infinity
        /\ \A d \in OutDegreesSummed(gcall.before) : d >= 1
        /\ gcall.iterations <= PAGERANK_ITERATIONS

\* C14: calculatePageRank returns an empty map, without an iteration, for
\* a graph with no nodes, and (1 - 0.85) / n for every node of an n-node
\* graph with no edges (0.15 for n = 1).
C14_PageRankDegenerate ==
    gcall.op = "calculatePageRank" =>
        LET n == Len(gcall.before.nodes)
        IN  /\ n = 0 => gcall.ranks = <<>> /\ gcall.iterations = 0
            /\ gcall.before.relationships = <<>> =>
                  /\ Len(gcall.ranks) = n
                  /\ \A i \in DOMAIN gcall.ranks :
                        /\ gcall.ranks[i].key = gcall.before.nodes[i].key
                        /\ gcall.ranks[i].value * n * 100 = 15 * RUnit
            /\ n = 1 /\ gcall.before.relationships = <<>> =>
                  gcall.ranks[1].value * 100 = 15 * RUnit

\* calculatePageRank has ranked a two-node graph with no edges
C14_Witness ==
    /\ gcall.op = "calculatePageRank"
    /\ Len(gcall.before.nodes) = 2
    /\ gcall.before.relationships = <<>>
    /\ gcall.iterations >= 1

-----------------------------------------------------------------------------
(* Target selection contracts *)

\* The targets a list helper considers: the candidates other than the actor
ListTargets(actorId, candidates) ==
    {candidates[i] : i \in DOMAIN candidates} \ {actorId}

\* The targets a graph helper considers: the targets of the actor's
\* outgoing edges other than the actor
EdgeTargets(g, actorId) ==
    IF ~Has(g.nodes, actorId) THEN {}
    ELSE {Get(g.relationships, relId).targetId :
            relId \in {r \in {Get(g.nodes, actorId).outgoingRelations[i] :
                                i \in DOMAIN Get(g.nodes, actorId).outgoingRelations} :
                          Has(g.relationships, r)}} \ {actorId}

\* ret is absent when there is no eligible target, and otherwise an eligible
\* target that maximises intimacy x (1 + trust)
MaximisesSpeakScore(g, actorId, targets, ret) ==
    IF targets = {} THEN ret = Undefined
    ELSE /\ ret.defined
         /\ ret.value \in targets
         /\ \A t \in targets :
               SpeakScore(getRelationship(g, actorId, ret.value))
                   >= SpeakScore(getRelationship(g, actorId, t))

\* ret is absent when there is no eligible target, and otherwise an eligible
\* target that minimises trust
MinimisesTrust(g, actorId, targets, ret) ==
    IF targets = {} THEN ret = Undefined
    ELSE /\ ret.defined
         /\ ret.value \in targets
         /\ \A t \in targets :
               TrustOr(getRelationship(g, actorId, ret.value))
                   <= TrustOr(getRelationship(g, actorId, t))

\* C17: each SPEAK target-selection helper returns a target that maximises
\* intimacy x (1 + trust) among the targets it considers, each ATTACK helper
\* one that minimises trust; none returns the actor itself, and each returns
\* absent when there is no eligible target.
C17_TargetsOptimal ==
    /\ gcall.op = "selectSpeakTarget" =>
          MaximisesSpeakScore(graph, gcall.actorId,
                              ListTargets(gcall.actorId, gcall.candidates), gcall.ret)
    /\ gcall.op = "selectAttackTarget" =>
          MinimisesTrust(graph, gcall.actorId,
                         ListTargets(gcall.actorId, gcall.candidates), gcall.ret)
    /\ gcall.op = "utilitySelectSpeakTarget" =>
          MaximisesSpeakScore(graph, gcall.actorId,
                              EdgeTargets(graph, gcall.actorId), gcall.ret)
    /\ gcall.op = "utilitySelectAttackTarget" =>
          MinimisesTrust(graph, gcall.actorId,
                         EdgeTargets(graph, gcall.actorId), gcall.ret)

\* The part of C17 that the three other helpers meet
C17_OtherHelpers ==
    /\ gcall.op = "selectSpeakTarget" =>
          MaximisesSpeakScore(graph, gcall.actorId,
                              ListTargets(gcall.actorId, gcall.candidates), gcall.ret)
    /\ gcall.op = "selectAttackTarget" =>
          MinimisesTrust(graph, gcall.actorId,
                         ListTargets(gcall.actorId, gcall.candidates), gcall.ret)
    /\ gcall.op = "utilitySelectAttackTarget" =>
          MinimisesTrust(graph, gcall.actorId,
                         EdgeTargets(graph, gcall.actorId), gcall.ret)

-----------------------------------------------------------------------------
(* Action selection contracts *)

\* The candidates other than the actor, in candidate order
Eligible(actor, candidates) ==
    SelectSeq(candidates, LAMBDA c : c.id # actor.id)

\* The (action type, target) pairs in the order MOVE, WAIT, SPEAK by
\* candidate order, ATTACK by candidate order
Pairs(actor, candidates) ==
    LET eligible == Eligible(actor, candidates)
    IN  <<[action |-> "MOVE", targetId |-> Undefined],
          [action |-> "WAIT", targetId |-> Undefined]>>
        \o [i \in DOMAIN eligible |->
               [action |-> "SPEAK", targetId |-> Defined(eligible[i].id)]]
        \o [i \in DOMAIN eligible |->
               [action |-> "ATTACK", targetId |-> Defined(eligible[i].id)]]

\* The expected utilities of the pairs
PairUtilities(actor, candidates, g) ==
    LET pairs == Pairs(actor, candidates)
    IN  [i \in DOMAIN pairs |->
            calculateExpectedUtility(actor, pairs[i].action, pairs[i].targetId, g)]

\* C16: selectOptimalAction returns the pair of greatest expected utility
\* among MOVE, WAIT, SPEAK and ATTACK with each candidate other than the
\* actor, the first evaluated of the pairs of greatest utility; it never
\* returns the actor as its own target, and with no candidates it returns
\* MOVE or WAIT without a target.
C16_ExhaustiveArgmax ==
    gcall.op = "selectOptimalAction" =>
        LET pairs == Pairs(gcall.actor, gcall.candidates)
            utilities == PairUtilities(gcall.actor, gcall.candidates, graph)
        IN  /\ \E i \in DOMAIN pairs :
                  /\ gcall.ret.action = pairs[i].action
                  /\ gcall.ret.targetId = pairs[i].targetId
                  /\ gcall.ret.expectedUtility = utilities[i]
                  /\ \A j \in DOMAIN pairs : utilities[j] <= utilities[i]
                  /\ \A j \in 1..(i - 1) : utilities[j] < utilities[i]
            /\ gcall.ret.targetId # Defined(gcall.actor.id)
            /\ gcall.candidates = <<>> =>
                  /\ gcall.ret.action \in {"MOVE", "WAIT"}
                  /\ gcall.ret.targetId = Undefined

\* A pair with a target was returned although a later pair has the same,
\* greatest, utility
C16_Witness ==
    /\ gcall.op = "selectOptimalAction"
    /\ gcall.ret.targetId.defined
    /\ LET pairs == Pairs(gcall.actor, gcall.candidates)
           utilities == PairUtilities(gcall.actor, gcall.candidates, graph)
       IN  \E i \in DOMAIN pairs, j \in DOMAIN pairs :
              /\ i < j
              /\ gcall.ret.action = pairs[i].action
              /\ gcall.ret.targetId = pairs[i].targetId
              /\ utilities[j] = gcall.ret.expectedUtility

-----------------------------------------------------------------------------
(* Action probability contracts *)

\* The sum of the weights of the entries of a tendency list whose tag is in
\* a set of tags
RECURSIVE WeightOfTags(_, _)
WeightOfTags(tendency, tagSet) ==
    IF tendency = <<>> THEN 0
    ELSE (IF Head(tendency).tag \in tagSet THEN Head(tendency).weight ELSE 0)
         + WeightOfTags(Tail(tendency), tagSet)

\* No element occurs twice in the sequence
NoRepeats(s) == \A i \in DOMAIN s, j \in DOMAIN s : s[i] = s[j] => i = j

\* The last call carried no tag twice, and its tendency list no two entries
\* of one tag
InclineNoRepeats ==
    /\ NoRepeats(pcall.tags)
    /\ NoRepeats([i \in DOMAIN pcall.tendency |-> pcall.tendency[i].tag])

-----------------------------------------------------------------------------
(* Plugin registration order *)

\* The tendency weights of a world: its [tag, weight] entries
TendencyWeights(w) == {w.tendency[i] : i \in DOMAIN w.tendency}

\* How many echoes of a world have the tone and the ttl
EchoCount(w, tone, ttl) ==
    Cardinality({i \in DOMAIN w.echoes :
                    w.echoes[i].tone = tone /\ w.echoes[i].ttl = ttl})

\* The two worlds hold the same multiset of echo tones and ttls
SameEchoes(w1, w2) ==
    /\ Len(w1.echoes) = Len(w2.echoes)
    /\ \A i \in DOMAIN w1.echoes :
          EchoCount(w1, w1.echoes[i].tone, w1.echoes[i].ttl)
              = EchoCount(w2, w1.echoes[i].tone, w1.echoes[i].ttl)

\* Everything C20 compares but the pressure values
SameButPressure ==
    /\ EmittedTypes(call) = EmittedTypes(call2)
    /\ TendencyWeights(world) = TendencyWeights(world2)
    /\ SameEchoes(world, world2)

\* C20: for every permutation of the registration order of the plugins, after
\* each simulateTurn the two runs have the same pressure value per type, emitted
\* the same set of chronicle types in that turn, and have the same tendency
\* weights and the same multiset of echo tones and ttls.
C20_RegistrationOrder ==
    (call.made /\ call2.made /\ Len(plugins2) = Len(meaningEngine)) =>
        /\ \A type \in MeaningType : PressureOf(world, type) = PressureOf(world2, type)
        /\ SameButPressure

-----------------------------------------------------------------------------
(* Belief system contracts *)

\* C15: setInitialBelief called with a confidence outside [0, 1] signals an
\* invalid-argument failure and stores no belief.
C15_InitialBeliefRejected ==
    (/\ bcall.op = "setInitialBelief"
     /\ (bcall.confidence < 0 \/ bcall.confidence > FOne)) =>
        /\ bcall.threw
        /\ beliefState = bcall.before

\* The last call was bayesianUpdate(p, L, L)
SameLikelihoods == bcall.op = "bayesianUpdate" /\ bcall.likelihoodTrue = bcall.likelihoodFalse

\* bayesianUpdate(0.5, 0.8, 0.2) equals 0.8
BayesExample ==
    (/\ bcall.op = "bayesianUpdate"
     /\ bcall.prior = FLit(1, 2)
     /\ bcall.likelihoodTrue = FLit(8, 10)
     /\ bcall.likelihoodFalse = FLit(2, 10)) => bcall.ret = FLit(8, 10)

\* C18 (as claimed): bayesianUpdate(0.5, 0.8, 0.2) equals 0.8,
\* bayesianUpdate(p, L, L) equals p for every p and L in [0, 1], and every
\* result lies in [0, 1].
C18_BayesExact ==
    /\ BayesExample
    /\ SameLikelihoods => bcall.ret = bcall.prior
    /\ bcall.op = "bayesianUpdate" => bcall.ret >= 0 /\ bcall.ret <= FOne

\* Neither product of bayesianUpdate(p, L, L) underflows: L * p and
\* L * (1 - p) are at least the smallest normal number, 2^(FBits - 1)
NoUnderflow ==
    /\ bcall.likelihoodTrue * bcall.prior >= 2^(FBits - 1) * FOne
    /\ bcall.likelihoodTrue * (FOne - bcall.prior) >= 2^(FBits - 1) * FOne

\* C18 (amended): bayesianUpdate(0.5, 0.8, 0.2) equals 0.8;
\* bayesianUpdate(p, L, L) equals p when L = 0 or p is 0, 0.5 or 1, and
\* otherwise, when neither product underflows, differs from p by a relative
\* rounding error of at most 6 * 2^-FBits; every result lies in [0, 1].
C18_BayesRounded ==
    /\ BayesExample
    /\ SameLikelihoods =>
          /\ (bcall.likelihoodTrue = 0 \/ bcall.prior \in {0, FLit(1, 2), FOne})
                 => bcall.ret = bcall.prior
          /\ NoUnderflow =>
                 Abs(bcall.ret - bcall.prior) * 2^FBits <= 6 * bcall.prior
    /\ bcall.op = "bayesianUpdate" => bcall.ret >= 0 /\ bcall.ret <= FOne

\* bayesianUpdate(p, L, L) without underflow has returned a number that is
\* not p
C18_Witness ==
    /\ SameLikelihoods
    /\ NoUnderflow
    /\ bcall.ret # bcall.prior

-----------------------------------------------------------------------------
(* Time *)

\* C22: each simulateTurn returns turn = input turn + 1, and year = input
\* year + 1 when the new turn number is a multiple of 10, otherwise the input
\* year; so a run from initialWorld (year 1, turn 1), whose k-th call returns
\* turn k + 1, has year 1 + floor((k + 1) / 10) = 1 + floor(turn / 10).
C22_TurnAndYear ==
    /\ ~call.made => (world.turn = 1 /\ world.year = 1)
    /\ call.made =>
          /\ world.turn = call.input.turn + 1
          /\ world.year = call.input.year + (IF world.turn % 10 = 0 THEN 1 ELSE 0)
    /\ world.year = 1 + (world.turn \div 10)

\* The 19th call returned turn 20 and moved the year from 2 to 3.
C22_Witness ==
    /\ call.made
    /\ world.turn = 20 /\ world.year = 3
    /\ call.input.turn = 19 /\ call.input.year = 2

-----------------------------------------------------------------------------
(* Chronicle-pressure function contracts *)

\* value x (1 + toneFactor x sensitivity x 0.1) for each echo in turn
RECURSIVE Compounded(_, _, _)
Compounded(value, type, echoes) ==
    IF echoes = <<>> THEN value
    ELSE Compounded(MulDiv(value, 1000 + TONE_FACTOR(Head(echoes).tone) * Sensitivity(type), 1000),
                    type, Tail(echoes))

\* C21: applyEchoToPressure adds no pressure entry, leaves a pressure of
\* zero at zero, multiplies every entry by
\* 1 + toneFactor(tone) x sensitivity(type) x 0.1 for each echo, compounding,
\* and changes nothing but the pressure map.
C21_EchoAmplifies ==
    pcall.op = "applyEchoToPressure" =>
        LET in == pcall.input.meaningPressure
            out == pcall.ret.meaningPressure
        IN  /\ Len(out) = Len(in)
            /\ \A i \in DOMAIN in :
                  /\ out[i].key = in[i].key
                  /\ in[i].value = 0 => out[i].value = 0
                  /\ out[i].value = Compounded(in[i].value, in[i].key, pcall.input.echoes)
            /\ DOMAIN pcall.ret = DOMAIN pcall.input
            /\ \A f \in DOMAIN pcall.input \ {"meaningPressure"} :
                  pcall.ret[f] = pcall.input[f]
            /\ pcall.arg = pcall.input

\* Two echoes of different tones amplified a map that has a zero entry, a
\* positive entry and no entry for the third type.
C21_Witness ==
    /\ pcall.op = "applyEchoToPressure"
    /\ Len(pcall.input.echoes) = 2
    /\ pcall.input.echoes[1].tone # pcall.input.echoes[2].tone
    /\ Len(pcall.input.meaningPressure) = 2
    /\ \E i \in DOMAIN pcall.input.meaningPressure :
          pcall.input.meaningPressure[i].value = 0
    /\ \E i \in DOMAIN pcall.input.meaningPressure :
          pcall.ret.meaningPressure[i].value > pcall.input.meaningPressure[i].value

\* The number of chronicles of a type in a list
ChroniclesOfType(chronicles, type) ==
    Cardinality({i \in DOMAIN chronicles : TypeOfChronicle(chronicles[i]) = type})

\* pressure[T] >= 2.0, and no chronicle of T recorded or the last one at
\* least 3 turns back
MayEmit(w, type) ==
    /\ Has(w.meaningPressure, type)
    /\ Get(w.meaningPressure, type) >= 2 * PUnit
    /\ \/ type \notin DOMAIN w.lastChronicleTurn
       \/ w.turn - w.lastChronicleTurn[type] >= 3

\* C23: generateChronicleFromPressure emits exactly one chronicle of a type
\* if and only if the type's pressure is at least 2.0 and no chronicle of it
\* was recorded or the last one is at least 3 turns back, and none
\* otherwise.  With pressure[FEAR] = 2.0 at turn 5 and the last FEAR
\* chronicle at turn 1 it emits; one turn later, with the pressure back at
\* 2.0, it does not.
C23_EmitsIffDue ==
    pcall.op = "generateChronicleFromPressure" =>
        /\ \A type \in MeaningType :
              ChroniclesOfType(pcall.chronicles, type)
                  = IF MayEmit(pcall.input, type) THEN 1 ELSE 0
        /\ Len(pcall.chronicles) <= Cardinality(MeaningType)
        /\ (/\ PressureOf(pcall.input, "FEAR") = 2 * PUnit
            /\ pcall.input.turn = 5
            /\ "FEAR" \in DOMAIN pcall.input.lastChronicleTurn
            /\ pcall.input.lastChronicleTurn["FEAR"] = 1)
              => ChroniclesOfType(pcall.chronicles, "FEAR") = 1
        /\ (pcall.step = 2 /\ ChroniclesOfType(pcall.prev.chronicles, "FEAR") = 1)
              => ChroniclesOfType(pcall.chronicles, "FEAR") = 0

\* The example: FEAR at 2.0 in turn 5, last chronicle in turn 1, emitted;
\* in turn 6, with FEAR back at 2.0, nothing of FEAR is emitted.
C23_Witness ==
    /\ pcall.op = "generateChronicleFromPressure"
    /\ pcall.step = 2
    /\ pcall.prev.input.turn = 5
    /\ PressureOf(pcall.prev.input, "FEAR") = 2 * PUnit
    /\ "FEAR" \in DOMAIN pcall.prev.input.lastChronicleTurn
    /\ pcall.prev.input.lastChronicleTurn["FEAR"] = 1
    /\ ChroniclesOfType(pcall.prev.chronicles, "FEAR") = 1
    /\ pcall.input.turn = 6
    /\ PressureOf(pcall.input, "FEAR") = 2 * PUnit
    /\ ChroniclesOfType(pcall.chronicles, "FEAR") = 0

\* C24: for each type generateChronicleFromPressure emits a chronicle of,
\* the returned pressure is 0.4 times the pressure received and
\* lastChronicleTurn becomes the current turn; for every other type pressure
\* and lastChronicleTurn are as received; tendency, echoes and the history
\* are unchanged.
C24_EmissionFrame ==
    pcall.op = "generateChronicleFromPressure" =>
        /\ \A type \in MeaningType :
              IF ChroniclesOfType(pcall.chronicles, type) > 0
              THEN /\ PressureOf(pcall.ret, type)
                        = (4 * PressureOf(pcall.input, type)) \div 10
                   /\ type \in DOMAIN pcall.ret.lastChronicleTurn
                   /\ pcall.ret.lastChronicleTurn[type] = pcall.input.turn
              ELSE /\ Has(pcall.ret.meaningPressure, type)
                        = Has(pcall.input.meaningPressure, type)
                   /\ PressureOf(pcall.ret, type) = PressureOf(pcall.input, type)
                   /\ (type \in DOMAIN pcall.ret.lastChronicleTurn)
                        = (type \in DOMAIN pcall.input.lastChronicleTurn)
                   /\ type \in DOMAIN pcall.input.lastChronicleTurn
                        => pcall.ret.lastChronicleTurn[type]
                             = pcall.input.lastChronicleTurn[type]
        /\ [i \in DOMAIN pcall.ret.meaningPressure |-> pcall.ret.meaningPressure[i].key]
              = [i \in DOMAIN pcall.input.meaningPressure |-> pcall.input.meaningPressure[i].key]
        /\ DOMAIN pcall.ret = DOMAIN pcall.input
        /\ \A f \in DOMAIN pcall.input \ {"meaningPressure", "lastChronicleTurn"} :
              pcall.ret[f] = pcall.input[f]
        /\ pcall.arg = pcall.input

\* One type emitted again after its cooldown and fell to 0.4 of a pressure
\* that is no multiple of the threshold; another, over the threshold but in
\* its cooldown, and a third, below the threshold, stayed.
C24_Witness ==
    /\ pcall.op = "generateChronicleFromPressure"
    /\ Len(pcall.chronicles) = 1
    /\ \E type \in MeaningType :
          /\ ChroniclesOfType(pcall.chronicles, type) = 1
          /\ PressureOf(pcall.input, type) > 2 * PUnit
          /\ type \in DOMAIN pcall.input.lastChronicleTurn
          /\ pcall.ret.lastChronicleTurn[type] # pcall.input.lastChronicleTurn[type]
    /\ \E type \in MeaningType :
          /\ ChroniclesOfType(pcall.chronicles, type) = 0
          /\ PressureOf(pcall.input, type) >= 2 * PUnit
    /\ \E type \in MeaningType :
          /\ Has(pcall.input.meaningPressure, type)
          /\ PressureOf(pcall.input, type) < 2 * PUnit
    /\ pcall.input.tendency # <<>> /\ pcall.input.echoes # <<>>
    /\ pcall.input.chronicles # <<>>

\* The delta a chronicle of a type contributes to a tag, in hundredths
TagDelta(type, tag) ==
    CASE type = "FEAR" /\ tag = "RISKY" -> -10
      [] type = "FEAR" /\ tag = "SAFE" -> 8
      [] type = "TRUST" /\ tag = "SOCIAL" -> 8
      [] type = "TRUST" /\ tag = "PASSIVE" -> -4
      [] type = "RESPECT" /\ tag = "AGGRESSIVE" -> 5
      [] OTHER -> 0

\* The sum of the deltas the chronicles of a list contribute to a tag
RECURSIVE SumOfDeltas(_, _)
SumOfDeltas(chronicles, tag) ==
    IF chronicles = <<>> THEN 0
    ELSE TagDelta(TypeOfChronicle(Head(chronicles)), tag)
         + SumOfDeltas(Tail(chronicles), tag)

\* The weight a tendency list gives a tag, 0 without an entry
WeightOf(tendency, tag) == WeightOfTags(tendency, {tag})

\* C25: applyChronicleTendency yields for each tag
\* clamp(previous weight + sum of the deltas of all chronicles of the list,
\* -0.6, 0.6): clamping once after the cumulative sum gives what the function
\* returns; with an empty list the world is returned unchanged.
C25_ClampOnce ==
    pcall.op = "applyChronicleTendency" =>
        /\ \A tag \in ActionTag :
              WeightOf(pcall.ret.tendency, tag)
                  = Max(-60, Min(60, WeightOf(pcall.input.tendency, tag)
                                       + SumOfDeltas(pcall.chronicles, tag)))
        /\ NoRepeats([i \in DOMAIN pcall.ret.tendency |-> pcall.ret.tendency[i].tag])
        /\ pcall.chronicles = <<>> => pcall.ret = pcall.input

\* Three chronicles of one type on a weight that the first of them already
\* took past a bound: the function clamped three times, and the weight
\* stands at the bound.
C25_Witness ==
    /\ pcall.op = "applyChronicleTendency"
    /\ Len(pcall.chronicles) = 3
    /\ \E tag \in ActionTag :
          /\ WeightOf(pcall.input.tendency, tag) \notin {-60, 60}
          /\ Abs(WeightOf(pcall.input.tendency, tag)
                    + TagDelta(TypeOfChronicle(pcall.chronicles[1]), tag)) > 60
          /\ Abs(WeightOf(pcall.input.tendency, tag)
                    + SumOfDeltas(pcall.chronicles, tag)) > 80
          /\ Abs(WeightOf(pcall.ret.tendency, tag)) = 60
    /\ \E tag \in ActionTag :
          /\ WeightOf(pcall.input.tendency, tag) # 0
          /\ WeightOf(pcall.ret.tendency, tag) = WeightOf(pcall.input.tendency, tag)

-----------------------------------------------------------------------------
(* Order of the stages of a turn *)

\* The sum of the intensities of the meaning events of a type
RECURSIVE SumOfIntensities(_, _)
SumOfIntensities(meanings, type) ==
    IF meanings = <<>> THEN 0
    ELSE (IF Head(meanings).type = type THEN Head(meanings).intensity ELSE 0)
         + SumOfIntensities(Tail(meanings), type)

\* The pressure of a type once this turn's intensities are added
Accumulated(c, type) ==
    PressureOf(c.input, type) + SumOfIntensities(c.meanings, type)

\* ... and then amplified by the echoes alive at the start of the turn
SeenByEmission(c, type) == Compounded(Accumulated(c, type), type, c.input.echoes)

\* The emission test on that pressure, at the turn the call was given
DueOn(c, type, value) ==
    /\ value >= 2 * PUnit
    /\ \/ type \notin DOMAIN c.input.lastChronicleTurn
       \/ c.input.turn - c.input.lastChronicleTurn[type] >= 3

\* C26: within one simulateTurn the emission test sees the pressure after
\* this turn's intensities are added and after amplification by the echoes
\* alive at the start of the turn, and by no echo spawned in this turn; the
\* tendency is updated from the chronicles emitted in this turn only.
C26_StageOrder ==
    call.made =>
        /\ \E emitted \in {EmittedTypes(call)} :
              \A type \in MeaningType :
                  \E seen \in {SeenByEmission(call, type)} :
                      /\ type \in emitted <=> DueOn(call, type, seen)
                      /\ PressureOf(world, type)
                            = IF type \in emitted THEN (4 * seen) \div 10 ELSE seen
        /\ call.chronicles = <<>> => world.tendency = call.input.tendency
        /\ \A tag \in ActionTag :
              WeightOf(world.tendency, tag)
                  = Max(-60, Min(60, WeightOf(call.input.tendency, tag)
                                       + SumOfDeltas(call.chronicles, tag)))

\* A chronicle was emitted of a type whose pressure was under the threshold
\* with this turn's intensities alone and with the old echoes alone, and
\* would have emitted a second type had this turn's echoes amplified too.
C26_Witness ==
    /\ call.made
    /\ call.input.echoes # <<>> /\ call.meanings # <<>>
    /\ \E type \in EmittedTypes(call) :
          /\ Accumulated(call, type) < 2 * PUnit
          /\ Compounded(PressureOf(call.input, type), type, call.input.echoes) < 2 * PUnit
    /\ \E type \in MeaningType \ EmittedTypes(call) :
          /\ DueOn(call, type,
                   Compounded(Accumulated(call, type), type,
                              call.input.echoes
                                  \o [k \in DOMAIN call.meanings |->
                                         [tone |-> ToneOfMeanings(call.meanings)[k]]]))
    /\ call.input.tendency # <<>>

-----------------------------------------------------------------------------
(* Community contracts *)

\* The characters one relationship of trust > 0 away from a set of
\* characters, in either direction
PositiveStep(g, set) ==
    set \cup {g.relationships[i].value.targetId :
                 i \in {j \in DOMAIN g.relationships :
                          /\ g.relationships[j].value.trust > 0
                          /\ g.relationships[j].value.sourceId \in set}}
        \cup {g.relationships[i].value.sourceId :
                 i \in {j \in DOMAIN g.relationships :
                          /\ g.relationships[j].value.trust > 0
                          /\ g.relationships[j].value.targetId \in set}}

\* The characters a path of such relationships leads to
RECURSIVE PositiveReach(_, _)
PositiveReach(g, set) ==
    IF PositiveStep(g, set) = set THEN set ELSE PositiveReach(g, PositiveStep(g, set))

NodeIds(g) == {g.nodes[i].key : i \in DOMAIN g.nodes}

\* Every node has one community id, and two nodes have the same id if and
\* only if a path of relationships of trust > 0 connects them
CommunitiesAreComponents(g, communities) ==
    /\ \A n \in NodeIds(g) :
          Cardinality({i \in DOMAIN communities : communities[i].key = n}) = 1
    /\ \A n \in NodeIds(g), m \in NodeIds(g) :
          (Get(communities, n) = Get(communities, m)) <=> (m \in PositiveReach(g, {n}))

\* C27: detectCommunities assigns every node exactly one community id, and
\* two nodes receive the same id if and only if they are connected by a path
\* of relationships with trust > 0, each followed in either direction.
C27_CommunitiesConnected ==
    gcall.op = "detectCommunities" => CommunitiesAreComponents(graph, gcall.communities)

\* Every stored relationship has both endpoints among the nodes and is
\* listed in its source's outgoing and its target's incoming list
FullyListed(g) ==
    \A i \in DOMAIN g.relationships :
        LET rel == g.relationships[i].value
        IN  /\ Has(g.nodes, rel.sourceId) /\ Has(g.nodes, rel.targetId)
            /\ Includes(Get(g.nodes, rel.sourceId).outgoingRelations, g.relationships[i].key)
            /\ Includes(Get(g.nodes, rel.targetId).incomingRelations, g.relationships[i].key)

\* On graphs whose nodes list all their relationships the communities are
\* the components.
C27_WhenFullyListed ==
    (gcall.op = "detectCommunities" /\ FullyListed(graph))
        => CommunitiesAreComponents(graph, gcall.communities)

-----------------------------------------------------------------------------
(* Adjacency contracts *)

\* How often an id occurs in a list
Occurrences(list, id) == Cardinality({i \in DOMAIN list : list[i] = id})

\* Every stored relationship between two nodes is listed once by its source
\* as outgoing and once by its target as incoming
StoredAreListed(g) ==
    \A i \in DOMAIN g.relationships :
        LET rel == g.relationships[i].value
        IN  (Has(g.nodes, rel.sourceId) /\ Has(g.nodes, rel.targetId)) =>
                /\ Occurrences(Get(g.nodes, rel.sourceId).outgoingRelations,
                               g.relationships[i].key) = 1
                /\ Occurrences(Get(g.nodes, rel.targetId).incomingRelations,
                               g.relationships[i].key) = 1

\* Every id in an adjacency list names a stored relationship
ListedAreStored(g) ==
    \A i \in DOMAIN g.nodes :
        /\ \A k \in DOMAIN g.nodes[i].value.outgoingRelations :
              Has(g.relationships, g.nodes[i].value.outgoingRelations[k])
        /\ \A k \in DOMAIN g.nodes[i].value.incomingRelations :
              Has(g.relationships, g.nodes[i].value.incomingRelations[k])

\* The last call removed no relationship
NoneRemoved ==
    gcall.op \in {"addCharacterNode", "upsertRelationship"} =>
        \A i \in DOMAIN gcall.before.relationships :
            Has(graph.relationships, gcall.before.relationships[i].key)

\* A query helper returns absent for a node only when no stored
\* relationship has the node as its source
AbsentOnlyWithoutEdges(g) ==
    \A n \in NodeIds(g) :
        (\/ ~findMostTrusted(g, n).defined
         \/ ~findLeastTrusted(g, n).defined
         \/ ~findMostIntimate(g, n).defined)
            => \A i \in DOMAIN g.relationships : g.relationships[i].value.sourceId # n

\* C28: after any sequence of addCharacterNode and upsertRelationship calls
\* every stored relationship between nodes is listed exactly once in its
\* source's outgoing and its target's incoming list, every listed id names a
\* stored relationship, no relationship is removed, and findMostTrusted,
\* findLeastTrusted and findMostIntimate return absent for a node only when
\* no stored relationship has it as source.
C28_AdjacencyConsistent ==
    /\ StoredAreListed(graph)
    /\ ListedAreStored(graph)
    /\ NoneRemoved
    /\ AbsentOnlyWithoutEdges(graph)

\* What holds of it: listed ids are stored, none is listed twice, nothing is
\* removed.
C28_ListedStoredKept ==
    /\ ListedAreStored(graph)
    /\ NoneRemoved
    /\ \A i \in DOMAIN graph.nodes :
          /\ NoRepeats(graph.nodes[i].value.outgoingRelations)
          /\ NoRepeats(graph.nodes[i].value.incomingRelations)

-----------------------------------------------------------------------------
(* Echo lifetime *)

\* The turn in which a meaning event was evaluated: the call its id was
\* drawn in
TurnOfMeaning(m) == m.id[2]

\* The echoes of a list that a meaning event spawned
EchoesOf(echoes, m) == {i \in DOMAIN echoes : echoes[i].originMeaningId = m.id}

\* In a world state, a meaning event of turn t has one echo while the
\* state's turn is t + 1 (ttl 2) or t + 2 (ttl 1), and none afterwards
EchoesByAge(w) ==
    \A k \in DOMAIN w.meanings :
        LET m == w.meanings[k]
            age == w.turn - TurnOfMeaning(m)
        IN  IF age \in {1, 2}
            THEN /\ Cardinality(EchoesOf(w.echoes, m)) = 1
                 /\ \A i \in EchoesOf(w.echoes, m) :
                       /\ w.echoes[i].ttl = 3 - age
                       /\ w.echoes[i].tone
                             = IF m.type = "FEAR" THEN "negative" ELSE "positive"
            ELSE EchoesOf(w.echoes, m) = {}

\* C29: every meaning event of a turn spawns exactly one echo, negative for
\* FEAR and positive otherwise; every echo of a returned world has ttl 1 or 2;
\* an echo spawned in turn t is among the echoes that amplify in the turns
\* t + 1 and t + 2 and in no other, and is absent from the state that turn
\* t + 2 returns.
C29_EchoLifetime ==
    /\ \A i \in DOMAIN world.echoes : world.echoes[i].ttl \in {1, 2}
    /\ \A i \in DOMAIN world.echoes :
          \E k \in DOMAIN world.meanings :
              world.echoes[i].originMeaningId = world.meanings[k].id
    /\ EchoesByAge(world)
    /\ call.made =>
          /\ \A k \in DOMAIN call.meanings :
                /\ TurnOfMeaning(call.meanings[k]) = call.input.turn
                /\ Cardinality(EchoesOf(world.echoes, call.meanings[k])) = 1
          /\ EchoesByAge(call.input)

\* The third turn after a FEAR event and an event of another type: their
\* echoes amplified in two turns and are gone, while echoes of ttl 1 and of
\* ttl 2 are alive.
C29_Witness ==
    /\ call.made
    /\ \E k \in DOMAIN world.meanings : \E j \in DOMAIN world.meanings :
          /\ TurnOfMeaning(world.meanings[k]) = world.turn - 3
          /\ TurnOfMeaning(world.meanings[j]) = world.turn - 3
          /\ world.meanings[k].type = "FEAR" /\ world.meanings[j].type # "FEAR"
          /\ EchoesOf(world.echoes, world.meanings[k]) = {}
          /\ EchoesOf(call.input.echoes, world.meanings[k]) # {}
    /\ \E i \in DOMAIN world.echoes : world.echoes[i].ttl = 1
    /\ \E i \in DOMAIN world.echoes : world.echoes[i].ttl = 2

-----------------------------------------------------------------------------
(* Decay contracts *)

\* value x (1 - rate)^turns, in units of 1/GUnit
Decayed(value, rate, turns) == QuotZ(value * MathPow(PowUnit - rate, turns), PowUnit)

\* Equal up to the rounding of two products
Close(x, y) == Abs(x - y) <= 2

\* C30: decayRelationships at turn t1 and then at turn t2 >= t1, with no
\* upsertRelationship in between, leaves every edge with the trust and
\* intimacy of a single call at turn t2: the trust at the last interaction
\* times (1 - 0.02)^(t2 - lastInteractionTurn), and the intimacy likewise
\* with rate 0.01.
C30_DecayTwiceAsOnce ==
    (gcall.op = "decayRelationships" /\ gcall.calls = 2) =>
        \A i \in DOMAIN graph.relationships :
            LET new == graph.relationships[i].value
                old == gcall.atInteraction.relationships[i].value
                single == decayRelationships(gcall.atInteraction,
                                             gcall.currentTurn).relationships[i].value
                turns == gcall.currentTurn - old.lastInteractionTurn
            IN  /\ Close(new.trust, single.trust)
                /\ Close(new.intimacy, single.intimacy)
                /\ Close(new.trust, Decayed(old.trust, 200, turns))
                /\ Close(new.intimacy, Decayed(old.intimacy, 100, turns))

\* What holds of it: the second call multiplies what the first left by the
\* factor of the whole span again, and so do two calls whose first is at
\* the turn of the last interaction agree with one.
C30_DecayCompounds ==
    (gcall.op = "decayRelationships" /\ gcall.calls = 2) =>
        \A i \in DOMAIN graph.relationships :
            LET new == graph.relationships[i].value
                old == gcall.atInteraction.relationships[i].value
                first == gcall.before.relationships[i].value
            IN  /\ new.trust = Decayed(first.trust, 200,
                                       gcall.currentTurn - old.lastInteractionTurn)
                /\ new.lastInteractionTurn = old.lastInteractionTurn
                /\ gcall.t1 = old.lastInteractionTurn =>
                      new.trust = Decayed(old.trust, 200,
                                          gcall.currentTurn - old.lastInteractionTurn)

====
